---- MODULE Spec2Model ----
(***************************************************************************)
(* CoreAPI client of the signup gateway: the OAuth2 client-credentials     *)
(* token cache (module state accessToken / credentials / cacheDir and the  *)
(* cache file on disk) and the authenticated transport doRequest.          *)
(*                                                                         *)
(* The module is a singleton shared by every request handler of the        *)
(* process.  Each Caller is one asynchronous flow (the startup code of     *)
(* configureApp, or one inbound request); a flow is suspended at an await  *)
(* on the token endpoint or on a CoreAPI HTTP call, and synchronous code   *)
(* between two awaits is one atomic step.                                  *)
(***************************************************************************)
EXTENDS Integers, Sequences, FiniteSets, TLC

\* ------------------------------------------------------------------ bounds
MaxTime == 3             \* wall clock runs 0..MaxTime
MaxTokenRequests == 2    \* cap on upstream token requests in one run

\* asynchronous flows that may be suspended at once: e.g. the startup code of
\* configureApp and one inbound request, or two inbound requests
Callers == {"f1", "f2"}
NoCaller == "none"

\* expires_in values (seconds) a token response may carry
ExpiresIn == {1, 2}

\* HTTP statuses CoreAPI may answer with (the boundaries of validateStatus)
Statuses == {200, 399, 400, 401, 404, 405, 500}

\* credential tuples <<apiURL, clientID, secret, scopes>> handed to setCredentials
CredChoices == { <<"a", "bc", "s", "r">>, <<"x", "y", "s", "r">> }
\* module-load value of `credentials` (part_002:15-20)
credentialsInit == <<"", "", "", "">>

\* cache directories: os.tmpdir() and one alternative handed to setCacheDir
Dirs == {"tmp", "alt"}

VARIABLES
    credentials,    \* part_002:15  the credentials object, as a 4-tuple
    oauth2,         \* part_002:33  TRUE once oauth2Client.create() has run
    cacheDir,       \* part_002:30
    accessToken,    \* part_002:32  <<>> for null, <<token>> otherwise
    fs,             \* the cache file of each directory
    now,            \* wall clock (new Date())
    pc,             \* per flow: "idle", "awaitToken" or "awaitHttp"
    reqNo,          \* per flow: number of the token request it awaits (0: none)
    tokenRequests,  \* upstream client-credentials requests issued so far
    obtained,       \* a token has been installed in accessToken at some time
    ev              \* the operation that made the last step, and its outcome

vars == <<credentials, oauth2, cacheDir, accessToken, fs, now, pc, reqNo,
          tokenRequests, obtained, ev>>

\* The gateway's side: one POST /imageengine request per run.
VARIABLES ppc, preq, pcalls, pdone, plocal, presp, perr, dnsResult, serial

pvars == <<ppc, preq, pcalls, pdone, plocal, presp, perr, dnsResult, serial>>

\* The gateway's side: the browser session and one POST /user request.
VARIABLES upc, ureq, ucalls, ulocal, uresp, session, ticketPayload, uanswers,
          route, session0

uvars == <<upc, ureq, ucalls, ulocal, uresp, session, ticketPayload, uanswers,
          route, session0>>

allvars == <<vars, pvars, uvars>>

\* ------------------------------------------------------------- token data
\* A JSON object / token: the set of keys present and the values of the keys
\* the code reads.  Absent keys carry the value 0 / "".
Obj(keys, at, ei, ea, h) ==
    [keys |-> keys, access_token |-> at, expires_in |-> ei, expires_at |-> ea, hash |-> h]

EmptyObj == Obj({}, 0, 0, 0, "")

\* Object.keys(cacheDataTemplate), part_002:22-27
cacheDataTemplate == <<"token_type", "expires_in", "access_token", "hash">>

FileAbsent == [kind |-> "absent", obj |-> EmptyObj]
FileUnparsable == [kind |-> "unparsable", obj |-> EmptyObj]
\* content that parses as JSON but is no object (a number, a string, null)
FilePrimitive == [kind |-> "primitive", obj |-> EmptyObj]
FileObject(o) == [kind |-> "object", obj |-> o]

\* `for (let key in keys)` enumerates the INDICES of the array keys, as strings
ArrayIndexKeys(keys) == { ToString(i - 1) : i \in 1..Len(keys) }

\* part_002:41-49: false as soon as one enumerated key is in obj, else true
hasAllKeys(obj, keys) == ~ \E key \in ArrayIndexKeys(keys) : key \in obj.keys

\* part_002:56-58: one file per cache directory (cacheFile is fixed)
getCacheFilepath == cacheDir

\* part_002:67-74: sha256 over the four fields fed one after another, i.e. over
\* their concatenation; the digest is modelled as the digested text itself
getCacheIntegrityHash ==
    credentials[1] \o credentials[2] \o credentials[3] \o credentials[4]

create_AlwaysRecompute(token) ==
    IF "expires_in" \in token.keys
    THEN [token EXCEPT !.keys = @ \cup {"expires_at"},
                       !.expires_at = now + token.expires_in]
    ELSE token

\* oauth2.accessToken.create (part_002:155, 209): keeps expires_at when the
\* object has one, else derives it from expires_in, else leaves it absent
create(token) ==
    IF "expires_at" \in token.keys THEN token
    ELSE IF "expires_in" \in token.keys
    THEN [token EXCEPT !.keys = @ \cup {"expires_at"},
                       !.expires_at = now + token.expires_in]
    ELSE token

expired_Never(token) == FALSE

\* accessToken.expired() (part_002:185): the clock is after expires_at; a token
\* without expires_at never expires
expired(token) == "expires_at" \in token.keys /\ now > token.expires_at

\* ---------------------------------------------------------- the cache file
Loaded(threw, unlink, token) == [threw |-> threw, unlink |-> unlink, token |-> token]

getCachedAccessToken_KeepsUnparsable ==
    LET f == fs[getCacheFilepath] IN
    IF f.kind = "absent" THEN Loaded("ENOENT", FALSE, <<>>)
    ELSE IF f.kind = "unparsable" THEN Loaded("parse", FALSE, <<>>)
    ELSE IF f.kind = "primitive" THEN Loaded("TypeError", FALSE, <<>>)
    ELSE IF ~hasAllKeys(f.obj, cacheDataTemplate) THEN Loaded("fields", TRUE, <<>>)
    ELSE IF ~("hash" \in f.obj.keys /\ f.obj.hash = getCacheIntegrityHash)
    THEN Loaded("hash", TRUE, <<>>)
    ELSE Loaded("none", FALSE, <<create(f.obj)>>)

getCachedAccessToken_NoHashCheck ==
    LET f == fs[getCacheFilepath] IN
    IF f.kind = "absent" THEN Loaded("ENOENT", FALSE, <<>>)
    ELSE IF f.kind = "unparsable" THEN Loaded("parse", TRUE, <<>>)
    ELSE IF f.kind = "primitive" THEN Loaded("TypeError", FALSE, <<>>)
    ELSE IF ~hasAllKeys(f.obj, cacheDataTemplate) THEN Loaded("fields", TRUE, <<>>)
    ELSE Loaded("none", FALSE, <<create(f.obj)>>)

\* part_002:130-156.  The result names how the call ended: threw = "none" when
\* it returned a token, else the statement that threw; unlink = the file was
\* removed (fs.unlinkSync) before the throw.
\*   ENOENT     readFileSync found no file                          (line 132)
\*   parse      JSON.parse threw                                    (136-139)
\*   TypeError  `key in obj` on a parsed value that is no object    (43)
\*   fields     hasAllKeys returned false                           (142-145)
\*   hash       cacheData.hash != getCacheIntegrityHash()           (147-153)
getCachedAccessToken ==
    LET f == fs[getCacheFilepath] IN
    IF f.kind = "absent" THEN Loaded("ENOENT", FALSE, <<>>)
    ELSE IF f.kind = "unparsable" THEN Loaded("parse", TRUE, <<>>)
    ELSE IF f.kind = "primitive" THEN Loaded("TypeError", FALSE, <<>>)
    ELSE IF ~hasAllKeys(f.obj, cacheDataTemplate) THEN Loaded("fields", TRUE, <<>>)
    ELSE IF ~("hash" \in f.obj.keys /\ f.obj.hash = getCacheIntegrityHash)
    THEN Loaded("hash", TRUE, <<>>)
    ELSE Loaded("none", FALSE, <<create(f.obj)>>)

saveCachedAccessToken_NoHash(token) ==
    [fs EXCEPT ![getCacheFilepath] = FileObject(token)]

\* part_002:162-170: the file system after writing token.token plus the hash
saveCachedAccessToken(token) ==
    [fs EXCEPT ![getCacheFilepath] =
        FileObject([token EXCEPT !.keys = @ \cup {"hash"},
                                 !.hash = getCacheIntegrityHash])]

\* ------------------------------------------------------------------ events
Event(op, who, outcome, detail, status) ==
    [op |-> op, who |-> who, outcome |-> outcome, detail |-> detail, status |-> status]

\* ----------------------------------------------------------- configuration
setCredentials_NoGuard(cr) ==
    /\ credentials' = cr
    /\ oauth2' = TRUE
    /\ ev' = Event("setCredentials", NoCaller, "ok", "", 0)
    /\ UNCHANGED <<cacheDir, accessToken, fs, now, pc, reqNo, tokenRequests, obtained>>
    /\ UNCHANGED <<pvars, uvars>>

\* part_002:84-113
setCredentials(cr) ==
    /\ IF accessToken # <<>>
       THEN /\ ev' = Event("setCredentials", NoCaller, "raised", "", 0)
            /\ UNCHANGED <<credentials, oauth2>>
       ELSE /\ credentials' = cr
            /\ oauth2' = TRUE
            /\ ev' = Event("setCredentials", NoCaller, "ok", "", 0)
    /\ UNCHANGED <<cacheDir, accessToken, fs, now, pc, reqNo, tokenRequests, obtained>>
    /\ UNCHANGED <<pvars, uvars>>

\* part_002:119-124
setCacheDir(dir) ==
    /\ IF accessToken # <<>>
       THEN /\ ev' = Event("setCacheDir", NoCaller, "raised", "", 0)
            /\ UNCHANGED cacheDir
       ELSE /\ cacheDir' = dir
            /\ ev' = Event("setCacheDir", NoCaller, "ok", "", 0)
    /\ UNCHANGED <<credentials, oauth2, accessToken, fs, now, pc, reqNo,
                   tokenRequests, obtained>>
    /\ UNCHANGED <<pvars, uvars>>

\* -------------------------------------------------------- token acquisition
\* part_002:175-190 up to the first await: restore from the file, then either
\* return (a token that is not expired is in memory) or enter
\* getNewAccessToken (195-208), which issues the client-credentials request
\* and suspends.  accessToken holds the restored token while the flow waits.
\* The call follows setCredentials(), as the module requires (line 87) and as
\* configureApp does (part_003:112-120).
getAccessToken(c) ==
    LET r == getCachedAccessToken
        restored == IF r.threw = "none" THEN r.token ELSE accessToken
    IN
    /\ pc[c] = "idle"
    /\ oauth2
    /\ accessToken' = restored
    /\ obtained' = (obtained \/ r.threw = "none")
    /\ fs' = IF r.unlink THEN [fs EXCEPT ![getCacheFilepath] = FileAbsent] ELSE fs
    /\ IF restored = <<>> \/ expired(restored[1])
       THEN /\ tokenRequests < MaxTokenRequests
            /\ tokenRequests' = tokenRequests + 1
            /\ pc' = [pc EXCEPT ![c] = "awaitToken"]
            /\ reqNo' = [reqNo EXCEPT ![c] = tokenRequests + 1]
            /\ ev' = Event("getAccessToken", c, "pending", r.threw, 0)
       ELSE /\ ev' = Event("getAccessToken", c, "ok", r.threw, 0)
            /\ UNCHANGED <<pc, reqNo, tokenRequests>>
    /\ UNCHANGED <<credentials, oauth2, cacheDir, now>>
    /\ UNCHANGED <<pvars, uvars>>

\* What accessToken held when the token endpoint answered
Held ==
    IF accessToken = <<>> THEN "null"
    ELSE IF expired(accessToken[1]) THEN "expired"
    ELSE "valid"

\* part_002:209-212 and the return of getAccessToken (188): the token endpoint
\* answered with a token; it becomes accessToken and is written to the file
\* (writeFileSync is taken to succeed)
getNewAccessTokenResolved(c, ei) ==
    LET result == Obj({"token_type", "expires_in", "access_token"}, reqNo[c], ei, 0, "")
        token == create(result)
    IN
    /\ pc[c] = "awaitToken"
    /\ accessToken' = <<token>>
    /\ obtained' = TRUE
    /\ fs' = saveCachedAccessToken(token)
    /\ pc' = [pc EXCEPT ![c] = "idle"]
    /\ reqNo' = [reqNo EXCEPT ![c] = 0]
    /\ ev' = Event("getNewAccessToken", c, "ok", Held, 0)
    /\ UNCHANGED <<credentials, oauth2, cacheDir, now, tokenRequests>>
    /\ UNCHANGED <<pvars, uvars>>

\* part_002:213-217: the token request failed (network or auth); the error is
\* rethrown through getAccessToken
getNewAccessTokenRejected(c) ==
    /\ pc[c] = "awaitToken"
    /\ pc' = [pc EXCEPT ![c] = "idle"]
    /\ reqNo' = [reqNo EXCEPT ![c] = 0]
    /\ ev' = Event("getNewAccessToken", c, "raised", Held, 0)
    /\ UNCHANGED <<credentials, oauth2, cacheDir, accessToken, fs, now,
                   tokenRequests, obtained>>
    /\ UNCHANGED <<pvars, uvars>>

\* ------------------------------------------------------------------ transport
\* The bearer token of a request being built: what `accessToken.token.access_token`
\* is at that moment
Bearer(token) ==
    IF "access_token" \notin token.keys THEN "undefined"
    ELSE IF expired(token) THEN "expired"
    ELSE "valid"

\* part_002:220-230 (doGet, doPost, doPatch) and 232-254: build the request from
\* the in-memory token and hand it to axios.  With accessToken null, line 239
\* throws a TypeError and nothing is sent.
doRequest(c) ==
    /\ pc[c] = "idle"
    /\ oauth2
    /\ IF accessToken = <<>>
       THEN /\ ev' = Event("doRequest", c, "raised", "TypeError", 0)
            /\ UNCHANGED pc
       ELSE /\ pc' = [pc EXCEPT ![c] = "awaitHttp"]
            /\ ev' = Event("doRequest", c, "sent", Bearer(accessToken[1]), 0)
    /\ UNCHANGED <<credentials, oauth2, cacheDir, accessToken, fs, now, reqNo,
                   tokenRequests, obtained>>
    /\ UNCHANGED <<pvars, uvars>>

validateStatus_Only2xx(status) == status < 300

\* part_002:241-243
validateStatus(status) == status < 400 \/ status = 404 \/ status = 400

\* part_002:254-264: axios resolves when validateStatus accepts the status and
\* rejects otherwise; the rejection is rethrown
doRequestAnswered(c, status) ==
    /\ pc[c] = "awaitHttp"
    /\ pc' = [pc EXCEPT ![c] = "idle"]
    /\ ev' = Event("response", c, IF validateStatus(status) THEN "returned" ELSE "raised",
                   "", status)
    /\ UNCHANGED <<credentials, oauth2, cacheDir, accessToken, fs, now, reqNo,
                   tokenRequests, obtained>>
    /\ UNCHANGED <<pvars, uvars>>

\* part_002:255-260: no response at all (network error, timeout); axios
\* rejects, and the catch block throws (err.response is undefined there)
doRequestNetworkError(c) ==
    /\ pc[c] = "awaitHttp"
    /\ pc' = [pc EXCEPT ![c] = "idle"]
    /\ ev' = Event("response", c, "raised", "network", 0)
    /\ UNCHANGED <<credentials, oauth2, cacheDir, accessToken, fs, now, reqNo,
                   tokenRequests, obtained>>
    /\ UNCHANGED <<pvars, uvars>>

\* the wall clock advances
Tick ==
    /\ now < MaxTime
    /\ now' = now + 1
    /\ ev' = Event("tick", NoCaller, "ok", "", 0)
    /\ UNCHANGED <<credentials, oauth2, cacheDir, accessToken, fs, pc, reqNo,
                   tokenRequests, obtained>>
    /\ UNCHANGED <<pvars, uvars>>

\* ------------------------------------------------------------ initial state
\* ============================================== gateway: POST /imageengine
\* The gateway's requests.  A request carries the session's userContext as
\* express-session loaded it for this request, and the JSON body.
Runs == {"r1", "r2"}

Undefined == "undefined"

\* req.session.userContext as the handlers that log a user in write it:
\* POST /login (coreapi.js:172-179), POST /user for an existing account
\* (371-380, 398-407) and for a new one (440-448).  userID 0 is a userID the
\* CoreAPI body did not carry.
UserContext(isSSO, justRegistered, userID, email) ==
    <<[loggedIn |-> TRUE, isSSO |-> isSSO, justRegistered |-> justRegistered,
       userID |-> userID, email |-> email]>>

NoUserContext == <<>>

LoginContext(userID, email) == UserContext(FALSE, TRUE, userID, email)
ExistingSSOContext(userID, email) == UserContext(TRUE, FALSE, userID, email)
ExistingPasswordContext(userID, email) == UserContext(FALSE, FALSE, userID, email)
NewAccountContext(isSSO, userID, email) == UserContext(isSSO, TRUE, userID, email)

UserIDs == {0, 7}

SessionContexts ==
    {NoUserContext}
    \cup {LoginContext(7, "u@x.io"), ExistingSSOContext(7, "u@x.io"),
          ExistingPasswordContext(7, "u@x.io")}
    \cup {NewAccountContext(s, u, "u@x.io") : s \in BOOLEAN, u \in UserIDs}

\* JSON members of the body: a text, null, or no member at all.
JSNull == "null"

AccountNames == {Undefined, JSNull, "", "demo"}
Origins == {Undefined, "", "example.com", "https://example.com", "https://example.com//"}
QueryStrings == {Undefined, "", "utm=x"}
CampaignNames == {Undefined, "ads"}

NoRequest ==
    [ctx |-> NoUserContext, accountName |-> Undefined, origin |-> Undefined,
     queryString |-> Undefined, campaignName |-> Undefined]

Requests ==
    [ctx : SessionContexts, accountName : AccountNames, origin : Origins,
     queryString : QueryStrings, campaignName : CampaignNames]

\* coreapi.js:41-49.  null is neither === undefined nor == ''.
getMissingFields(requiredFields, obj, allowEmpty) ==
    {field \in requiredFields :
        obj[field] = Undefined \/ (~allowEmpty /\ obj[field] = "")}

\* A text read as the URL parser reads it: scheme, host, and the number of
\* slashes that end it.
Lex(text) ==
    CASE text = "https://example.com" ->
            [scheme |-> "https", host |-> "example.com", slashes |-> 0]
      [] text = "https://example.com//" ->
            [scheme |-> "https", host |-> "example.com", slashes |-> 2]
      [] OTHER -> [scheme |-> "", host |-> text, slashes |-> 0]

\* new URL(req.body.origin) at coreapi.js:521-528 throws on a text without a
\* scheme.
URLThrows(text) == Lex(text).scheme = ""

\* originURL.toString().replace(/\/+$/, '') at coreapi.js:542: every slash
\* that ends the serialisation is cut.
originURLStr(text) == Lex(text).scheme \o "://" \o Lex(text).host

\* originURL.protocol.replace(/:$/, '') at coreapi.js:544
originType(text) == Lex(text).scheme

\* coreapi.js:15, a text as the sequence of its characters
domainCharset ==
    <<"a", "b", "c", "d", "e", "f", "g", "h", "i", "j", "k", "l", "m", "n", "o", "p",
      "q", "r", "s", "t", "u", "v", "w", "x", "y", "z", "0", "1", "2", "3", "4", "5",
      "6", "7", "8", "9">>

generatedDomainLength == 8

generatedDomainTLD == <<"c", "d", "n">>

\* What Math.floor(Math.random() * charset.length) gave in the calls of one
\* randomString(generatedDomainLength, domainCharset): indexes from 0 to 35.
Draws ==
    {<<0, 25, 26, 35, 10, 29, 23, 16>>,
     [i \in 1..generatedDomainLength |-> Len(domainCharset) - 1]}

randomString_FromOne(length, charset, draws) ==
    [i \in 1..(length - 1) |-> charset[draws[i] + 1]]

\* coreapi.js:86-92, the characters charset.charAt(draw) in the order drawn
randomString(length, charset, draws) ==
    [i \in 1..length |-> charset[draws[i] + 1]]

\* randomString(generatedDomainLength, domainCharset) + '.' + generatedDomainTLD
GeneratedNames ==
    {randomString(generatedDomainLength, domainCharset, draws) \o <<".">>
        \o generatedDomainTLD : draws \in Draws}

\* ---------------------------------------------------------- CoreAPI answers
\* What a CoreAPI call comes back with: the HTTP status (0: no response at
\* all) and the shape of the body's data member: the created object, the
\* empty "data": [] of part_002:700, or no data member.
Answers ==
    { [status |-> 201, shape |-> "full"],
      [status |-> 400, shape |-> "empty"],
      [status |-> 404, shape |-> "nodata"],
      [status |-> 500, shape |-> "none"],
      [status |-> 0,   shape |-> "none"] }

\* doRequest, part_002:249-264: axios rejects a status validateStatus refuses,
\* and the catch reads err.response.data, which itself throws when there is
\* no response.
Raises(ans) == ans.status = 0 \/ ~validateStatus(ans.status)

RaiseMessage(ans) ==
    IF ans.status = 0 THEN "TypeError: response of undefined"
                      ELSE "Request failed with status code"

\* The data member of the n-th answer the CoreAPI gave, to a call of `step`.
Data(step, n, shape) == [step |-> step, n |-> n, shape |-> shape]

\* null, and a data member the body did not carry
Null == Data("null", 0, "null")

\* What reading .data of a body gives the handler.
DataOf(d) == IF d.shape = "nodata" THEN Data("undefined", 0, "undefined") ELSE d

\* data.id, <<>> when the data member has no id
IdOf(d) == IF d.shape = "full" THEN <<d.n>> ELSE <<>>

\* data.user, data.subscription, user.email
Member(d, name) == [d EXCEPT !.step = d.step \o "." \o name]

RegionLists ==
    { <<>>,
      <<[RegionName |-> "us-east-1", Deploy |-> "ALL"]>>,
      <<[RegionName |-> "us-east-1", Deploy |-> "ALL"],
        [RegionName |-> "eu-west-1", Deploy |-> "NONE"],
        [RegionName |-> "ap-south-1", Deploy |-> "ALL"]>>,
      <<[RegionName |-> "eu-west-1", Deploy |-> "SOME"]>> }

\* The handler's locals (coreapi.js:531-586) before the first call.
Locals ==
    [cname |-> <<>>, head |-> <<>>, user |-> Null, subscription |-> Null,
     domainResult |-> Null, originResult |-> Null, demoRunResults |-> Null,
     leadGenReferrer |-> Null, regions |-> <<>>, records |-> <<>>,
     dnsAnswer |-> Null]

Response(status, success, message, result) ==
    [status |-> status, success |-> success, message |-> message,
     result |-> result]

\* response.result as coreapi.js:497 leaves it
EmptyResult == <<>>

\* ------------------------------------------------------- the handler's steps
Goto(r, at, calls, local, resp, err) ==
    /\ ppc' = [ppc EXCEPT ![r] = at]
    /\ pcalls' = [pcalls EXCEPT ![r] = calls]
    /\ plocal' = [plocal EXCEPT ![r] = local]
    /\ presp' = [presp EXCEPT ![r] = resp]
    /\ perr' = [perr EXCEPT ![r] = err]

\* res.status(response.status).send(response) at coreapi.js:502-528
Reply400(r, message) ==
    Goto(r, "done", pcalls[r], plocal[r],
         Append(presp[r], Response(400, FALSE, message, EmptyResult)), perr[r])

Catch_GenericMessage(r, message, local) ==
    Goto(r, "done", pcalls[r], local,
         Append(presp[r], Response(500, FALSE, "Server error", EmptyResult)),
         <<message>>)

Catch_RollsBack(r, message, local) ==
    Goto(r, "done", Append(pcalls[r], [step |-> "Rollback", payload |-> [method |-> "DELETE"]]),
         local, Append(presp[r], Response(500, FALSE, message, EmptyResult)),
         <<message>>)

\* coreapi.js:670-676
Catch(r, message, local) ==
    Goto(r, "done", pcalls[r], local,
         Append(presp[r], Response(500, FALSE, message, EmptyResult)),
         <<message>>)

\* One call of the CoreAPI client (part_002:566-803) through doRequest
\* (part_002:249-264), up to the request being sent: with no token in memory
\* reading accessToken.token throws before anything is sent.
Call(r, step, payload, local) ==
    IF accessToken = <<>>
    THEN Catch(r, "TypeError: token of null", local)
    ELSE Goto(r, step, Append(pcalls[r], [step |-> step, payload |-> payload]),
              local, presp[r], perr[r])

\* The answer to the call the run waits for.
Received(r, step) ==
    /\ ppc[r] = step
    /\ serial' = serial + 1
    /\ pdone' = [pdone EXCEPT ![r] = @ + 1]

\* coreapi.js:531-540
newSub(req) ==
    [type |-> "imgeng", plan_id |-> "IMAGEENGINE_BASIC", payment_type |-> "TRIAL",
     user_id |-> req.ctx[1].userID, account_name |-> req.accountName]

\* coreapi.js:551-563
newDomain(req, local) ==
    [subscription_id |-> <<-1>>, url |-> originURLStr(req.origin),
     cname |-> local.cname, url_type |-> originType(req.origin),
     origin_conf_id |-> <<0>>]

\* coreapi.js:566-574
newOrigin(req) ==
    [subscription_id |-> <<-1>>, name |-> "default",
     url |-> originURLStr(req.origin), url_type |-> originType(req.origin),
     origin_conf_id |-> <<0>>]

\* coreapi.js:577-582
newDemoRun(req) ==
    [subscription_id |-> <<-1>>, url |-> req.origin]

\* if (value): a text other than '' is truthy
Truthy(value) == value \notin {Undefined, JSNull, ""}

newLeadGen_DefaultNone(req, subscription) ==
    [subscription_id |-> IdOf(subscription),
     campaign_name |-> IF Truthy(req.campaignName) THEN req.campaignName ELSE "none",
     url_query_string |-> req.queryString]

\* coreapi.js:620-626
newLeadGen(req, subscription) ==
    [subscription_id |-> IdOf(subscription),
     campaign_name |-> IF Truthy(req.campaignName) THEN req.campaignName ELSE "",
     url_query_string |-> req.queryString]

\* coreapi.js:492-528 and 531-590
imageengine(r) ==
    /\ ppc[r] = "idle"
    /\ LET req == preq[r] IN
       IF req.ctx = NoUserContext \/ req.ctx[1].userID = 0
       THEN Reply400(r, "You must be logged in to access this resource")
       ELSE IF getMissingFields({"accountName", "origin"}, req, FALSE) # {}
       THEN Reply400(r, "Missing required field(s)")
       ELSE IF URLThrows(req.origin)
       THEN Reply400(r, "Unable to parse origin URL")
       ELSE \E name \in GeneratedNames :
               Call(r, "Subscription", newSub(req), [Locals EXCEPT !.cname = name])
    /\ UNCHANGED <<preq, pdone, dnsResult, serial>>
    /\ UNCHANGED <<vars, uvars>>

\* coreapi.js:590-602
SubscriptionAnswered(r, ans) ==
    /\ Received(r, "Subscription")
    /\ LET result == Data("Subscription", serial + 1, ans.shape) IN
       IF Raises(ans)
       THEN Catch(r, RaiseMessage(ans), plocal[r])
       ELSE IF result.shape # "full"
       THEN Catch(r, "TypeError: property of undefined", plocal[r])
       ELSE LET subscription == Member(result, "subscription")
                local == [plocal[r] EXCEPT
                            !.head = <<[success |-> TRUE, status |-> ans.status,
                                        message |-> "created"]>>,
                            !.user = Member(result, "user"),
                            !.subscription = subscription]
            IN Call(r, "Domain",
                    [newDomain(preq[r], local) EXCEPT
                        !.subscription_id = IdOf(subscription)],
                    local)
    /\ UNCHANGED <<preq, dnsResult>>
    /\ UNCHANGED <<vars, uvars>>

OriginPayload_ConfIdUnset(req, subscription, domainResult) ==
    [newOrigin(req) EXCEPT !.subscription_id = IdOf(subscription)]

\* coreapi.js:605-606
OriginPayload(req, subscription, domainResult) ==
    [newOrigin(req) EXCEPT !.subscription_id = IdOf(subscription),
                           !.origin_conf_id = IdOf(domainResult)]

\* coreapi.js:599-609
DomainAnswered(r, ans) ==
    /\ Received(r, "Domain")
    /\ LET domainResult == Data("Domain", serial + 1, ans.shape) IN
       IF Raises(ans)
       THEN Catch(r, RaiseMessage(ans), plocal[r])
       ELSE IF domainResult.shape = "nodata"
       THEN Catch(r, "TypeError: property of undefined",
                  [plocal[r] EXCEPT !.domainResult = domainResult])
       ELSE Call(r, "Origin",
                 OriginPayload(preq[r], plocal[r].subscription, domainResult),
                 [plocal[r] EXCEPT !.domainResult = domainResult])
    /\ UNCHANGED <<preq, dnsResult>>
    /\ UNCHANGED <<vars, uvars>>

DemoRunPayload_PlaceholderId(req, subscription) == newDemoRun(req)

\* coreapi.js:612
DemoRunPayload(req, subscription) ==
    [newDemoRun(req) EXCEPT !.subscription_id = IdOf(subscription)]

\* coreapi.js:605-615
OriginAnswered(r, ans) ==
    /\ Received(r, "Origin")
    /\ LET originResult == Data("Origin", serial + 1, ans.shape) IN
       IF Raises(ans)
       THEN Catch(r, RaiseMessage(ans), plocal[r])
       ELSE Call(r, "DemoRun", DemoRunPayload(preq[r], plocal[r].subscription),
                 [plocal[r] EXCEPT !.originResult = originResult])
    /\ UNCHANGED <<preq, dnsResult>>
    /\ UNCHANGED <<vars, uvars>>

SendsPasswordReset_Either(ctx) == ctx.isSSO \/ ctx.justRegistered

\* coreapi.js:633-636
SendsPasswordReset(ctx) == ctx.isSSO /\ ctx.justRegistered

AfterLeadGen_ResetOncePerSession(r, local) ==
    IF /\ SendsPasswordReset(preq[r].ctx[1])
       /\ \A q \in Runs \ {r} :
             \A i \in 1..Len(pcalls[q]) : pcalls[q][i].step # "PasswordReset"
    THEN Call(r, "PasswordReset",
              [email |-> Member(local.user, "email"), template |-> "imageengine"],
              local)
    ELSE Call(r, "Regions", [method |-> "GET"], local)

\* coreapi.js:632-644, from the lead-gen step on
AfterLeadGen(r, local) ==
    IF SendsPasswordReset(preq[r].ctx[1])
    THEN Call(r, "PasswordReset",
              [email |-> Member(local.user, "email"), template |-> "imageengine"],
              local)
    ELSE Call(r, "Regions", [method |-> "GET"], local)

\* coreapi.js:612-630
DemoRunAnswered(r, ans) ==
    /\ Received(r, "DemoRun")
    /\ LET demoRunResults == Data("DemoRun", serial + 1, ans.shape)
           local == [plocal[r] EXCEPT !.demoRunResults = demoRunResults]
       IN IF Raises(ans)
          THEN Catch(r, RaiseMessage(ans), plocal[r])
          ELSE IF Truthy(preq[r].queryString)
          THEN Call(r, "LeadGen", newLeadGen(preq[r], local.subscription), local)
          ELSE AfterLeadGen(r, local)
    /\ UNCHANGED <<preq, dnsResult>>
    /\ UNCHANGED <<vars, uvars>>

\* coreapi.js:627-644
LeadGenAnswered(r, ans) ==
    /\ Received(r, "LeadGen")
    /\ IF Raises(ans)
       THEN Catch(r, RaiseMessage(ans), plocal[r])
       ELSE AfterLeadGen(r, [plocal[r] EXCEPT !.leadGenReferrer =
                                Data("LeadGen", serial + 1, ans.shape)])
    /\ UNCHANGED <<preq, dnsResult>>
    /\ UNCHANGED <<vars, uvars>>

\* coreapi.js:637-644
PasswordResetAnswered(r, ans) ==
    /\ Received(r, "PasswordReset")
    /\ IF Raises(ans)
       THEN Catch(r, RaiseMessage(ans), plocal[r])
       ELSE Call(r, "Regions", [method |-> "GET"], plocal[r])
    /\ UNCHANGED <<preq, dnsResult>>
    /\ UNCHANGED <<vars, uvars>>

RECURSIVE dnsRecords_EveryRegion(_, _)
dnsRecords_EveryRegion(regions, generatedDomainName) ==
    IF regions = <<>> THEN <<>>
    ELSE <<[domain |-> generatedDomainName, region |-> Head(regions).RegionName,
            type |-> "A"]>>
         \o dnsRecords_EveryRegion(Tail(regions), generatedDomainName)

\* coreapi.js:645-655
RECURSIVE dnsRecords(_, _)
dnsRecords(regions, generatedDomainName) ==
    IF regions = <<>> THEN <<>>
    ELSE (IF Head(regions).Deploy # "ALL" THEN <<>>
          ELSE <<[domain |-> generatedDomainName,
                  region |-> Head(regions).RegionName, type |-> "A"]>>)
         \o dnsRecords(Tail(regions), generatedDomainName)

\* coreapi.js:644-656, and createDNSRecords at part_002:794-803
RegionsAnswered(r, ans, list) ==
    /\ Received(r, "Regions")
    /\ IF Raises(ans)
       THEN Catch(r, RaiseMessage(ans), plocal[r])
       ELSE IF ans.shape = "nodata"
       THEN Catch(r, "TypeError: forEach of undefined", plocal[r])
       ELSE LET regions == IF ans.shape = "full" THEN list ELSE <<>>
                records == dnsRecords(regions, plocal[r].cname)
            IN Call(r, "DNS", [action |-> "CREATE", records |-> records],
                    [plocal[r] EXCEPT !.regions = regions, !.records = records])
    /\ UNCHANGED <<preq, dnsResult>>
    /\ UNCHANGED <<vars, uvars>>

result_LeadGenFromDemo(local, dns) ==
    [user |-> local.user, subscription |-> local.subscription,
     origin |-> DataOf(local.originResult), domain |-> DataOf(local.domainResult),
     dns |-> DataOf(dns), demo |-> DataOf(local.demoRunResults),
     leadGen |-> DataOf(local.demoRunResults)]

result_DnsBeforeAssignment(local, dns) ==
    [user |-> local.user, subscription |-> local.subscription,
     origin |-> DataOf(local.originResult), domain |-> DataOf(local.domainResult),
     dns |-> DataOf(dnsResult), demo |-> DataOf(local.demoRunResults),
     leadGen |-> DataOf(local.leadGenReferrer)]

\* response.result at coreapi.js:658-666
result(local, dns) ==
    [user |-> local.user, subscription |-> local.subscription,
     origin |-> DataOf(local.originResult), domain |-> DataOf(local.domainResult),
     dns |-> DataOf(dns), demo |-> DataOf(local.demoRunResults),
     leadGen |-> DataOf(local.leadGenReferrer)]

\* coreapi.js:656-669
DNSAnswered(r, ans) ==
    /\ Received(r, "DNS")
    /\ IF Raises(ans)
       THEN /\ Catch(r, RaiseMessage(ans), plocal[r])
            /\ UNCHANGED dnsResult
       ELSE /\ dnsResult' = Data("DNS", serial + 1, ans.shape)
            /\ LET head == plocal[r].head[1] IN
               Goto(r, "done", pcalls[r],
                    [plocal[r] EXCEPT !.dnsAnswer = Data("DNS", serial + 1, ans.shape)],
                    Append(presp[r],
                           Response(head.status, head.success, head.message,
                                    <<result(plocal[r], dnsResult')>>)),
                    perr[r])
    /\ UNCHANGED preq
    /\ UNCHANGED <<vars, uvars>>

\* No request is under way.
PipelineInit(requests) ==
    /\ preq = requests
    /\ ppc = [r \in Runs |-> IF requests[r] = NoRequest THEN "off" ELSE "idle"]
    /\ pcalls = [r \in Runs |-> <<>>]
    /\ pdone = [r \in Runs |-> 0]
    /\ plocal = [r \in Runs |-> Locals]
    /\ presp = [r \in Runs |-> <<>>]
    /\ perr = [r \in Runs |-> <<>>]
    /\ dnsResult = Null
    /\ serial = 0

\* ==================================================== gateway: POST /user
\* String.prototype.toLowerCase on the texts used as emails.
toLowerCase(text) ==
    CASE text = "A@x.io" -> "a@x.io"
      [] text = "B@x.io" -> "b@x.io"
      [] OTHER -> text

\* emailRegex.test, coreapi.js:94: local part, '@', dotted domain
emailRegexTest(text) == text \in {"a@x.io", "A@x.io", "b@x.io", "B@x.io"}

Emails == {Undefined, "a@x.io", "A@x.io", "b@x.io", "nobody"}
\* req.body.password: texts of 4, 5, 32 and 33 characters
Passwords ==
    {Undefined, "abcd", "abcde", "abcdefghijklmnopqrstuvwxyz012345",
     "abcdefghijklmnopqrstuvwxyz0123456"}
CountryIds == {Undefined, "238"}
Flags == {Undefined, "1"}

\* req.body of POST /user
UserRequests ==
    [google_token : Flags, github : Flags, email : Emails,
     password : Passwords, country_id : CountryIds]

NoUserRequest ==
    [google_token |-> Undefined, github |-> Undefined, email |-> Undefined,
     password |-> Undefined, country_id |-> Undefined]

\* req.session: userContext, and githubUserDetails as the GitHub callback
\* (part_000:140) left it, if it ran.
Sessions ==
    [userContext : {NoUserContext, LoginContext(7, "u@x.io")},
     githubUserDetails : {<<>>, <<[email |-> Undefined]>>, <<[email |-> JSNull]>>,
                          <<[email |-> "b@x.io"]>>}]

\* What client.verifyIdToken (coreapi.js:52-55) comes back with: it throws, or
\* gives a ticket whose payload has this email.
Tickets == {<<>>, <<"a@x.io">>, <<"A@x.io">>, <<"b@x.io">>}

\* The answers of the CoreAPI to the calls of this handler.
UserAnswers ==
    {[status |-> s, shape |-> b] : s \in {200, 201, 202}, b \in {"full", "empty", "nodata"}}
    \cup {[status |-> s, shape |-> b] : s \in {400, 404}, b \in {"empty", "nodata"}}
    \cup {[status |-> s, shape |-> "none"] : s \in {500, 0}}

\* response.result of POST /user
UserResult(userExists, user_id, email) ==
    [userExists |-> userExists, user_id |-> user_id, email |-> email]

UGoto(at, calls, local, resp, sess) ==
    /\ upc' = at
    /\ ucalls' = calls
    /\ ulocal' = local
    /\ uresp' = resp
    /\ session' = sess

\* res.status(response.status).send(response); return
USend(status, success, message, res, sess) ==
    UGoto("done", ucalls, ulocal, Append(uresp, Response(status, success, message, res)), sess)

UNext_AfterErrorResponse(sess) ==
    UGoto("next(err)", ucalls, ulocal,
          Append(uresp, Response(500, FALSE, "Server error", UserResult(FALSE, <<>>, <<>>))),
          sess)

\* An exception that leaves the handler: asyncroutes hands it to next
\* (asyncroutes.js:5-9); the handler sends nothing.
UNext(sess) == UGoto("next(err)", ucalls, ulocal, uresp, sess)

\* A call of the CoreAPI client up to the request being sent; `thrown` is what
\* the handler does with the TypeError of a missing token.
UCall(step, payload, local, sess, thrown) ==
    IF accessToken = <<>>
    THEN thrown
    ELSE UGoto(step, Append(ucalls, [step |-> step, payload |-> payload]), local,
               uresp, sess)

isSSO(body) == Truthy(body.google_token) \/ Truthy(body.github)

\* email as the handler holds it when it reaches line 345
emailOf(body, sess) ==
    IF Truthy(body.github) THEN sess.githubUserDetails[1].email
    ELSE IF Truthy(body.google_token) THEN body.email
    ELSE toLowerCase(body.email)

newUser_UsernameFixed(body, sess) ==
    [username |-> "user", email |-> emailOf(body, sess),
     country_id |-> body.country_id,
     password |-> IF isSSO(body) THEN "randomString" ELSE body.password,
     confirmed |-> IF isSSO(body) THEN 0 ELSE 1]

\* coreapi.js:346-362
newUser(body, sess) ==
    [username |-> emailOf(body, sess), email |-> emailOf(body, sess),
     country_id |-> body.country_id,
     password |-> IF isSSO(body) THEN "randomString" ELSE body.password,
     confirmed |-> IF isSSO(body) THEN 0 ELSE 1]

\* coreapi.js:258, 272, 291
requiredFields(body) ==
    IF Truthy(body.github) THEN {}
    ELSE IF Truthy(body.google_token) THEN {"email"}
    ELSE {"email", "password", "country_id"}

passwordInvalid_Exclusive(password) == Len(password) <= 5 \/ Len(password) >= 32

\* coreapi.js:338
passwordInvalid(password) == Len(password) < 5 \/ Len(password) > 32

\* coreapi.js:287-366: from the GitHub branch to await coreapi.searchUsers
UserContinue(body, sess) ==
    IF Truthy(body.github) /\ sess.githubUserDetails = <<>>
    THEN UNext(sess)
    ELSE IF Truthy(body.github) /\ sess.githubUserDetails[1].email = Undefined
    THEN USend(400, FALSE, "Github verification failed", UserResult(FALSE, <<>>, <<>>), sess)
    ELSE IF Truthy(body.github) /\ sess.githubUserDetails[1].email = JSNull
    THEN USend(400, FALSE, "Github verification failed (unable to get user email)",
               UserResult(FALSE, <<>>, <<>>), sess)
    ELSE IF getMissingFields(requiredFields(body), body, FALSE) # {}
    THEN USend(400, FALSE, "Missing required field(s)", UserResult(FALSE, <<>>, <<>>), sess)
    ELSE IF ~isSSO(body) /\ ~emailRegexTest(toLowerCase(body.email))
    THEN USend(400, FALSE, "Invalid email address provided",
               UserResult(FALSE, <<>>, <<>>), sess)
    ELSE IF ~isSSO(body) /\ passwordInvalid(body.password)
    THEN USend(400, FALSE, "Invalid password", UserResult(FALSE, <<>>, <<>>), sess)
    ELSE UCall("searchUsers", [email |-> emailOf(body, sess)], ulocal, sess, UNext(sess))

\* What the CoreAPI answered to a call of the handler; success is the success
\* member of the body.
Answered(step, ans, success) ==
    [step |-> step, status |-> ans.status, shape |-> ans.shape, success |-> success]

postUser_KeepsLogin ==
    /\ upc = "idle"
    /\ IF Truthy(ureq.google_token)
       THEN UGoto("verifyIdToken", ucalls, ulocal, uresp, session)
       ELSE UserContinue(ureq, session)
    /\ UNCHANGED <<route, session0, ureq, ticketPayload, uanswers>>
    /\ UNCHANGED <<vars, pvars>>

\* coreapi.js:240-285, up to await verifyGoogleToken, or on to line 287
postUser ==
    /\ upc = "idle"
    /\ LET sess == [session EXCEPT !.userContext = NoUserContext] IN
       IF Truthy(ureq.google_token)
       THEN UGoto("verifyIdToken", ucalls, ulocal, uresp, sess)
       ELSE UserContinue(ureq, sess)
    /\ UNCHANGED <<route, session0, ureq, ticketPayload, uanswers>>
    /\ UNCHANGED <<vars, pvars>>

verifyGoogleToken_NoComparison(email, ticket) == ticket # <<>>

\* verifyGoogleToken, coreapi.js:51-84: TRUE when it returns the payload.  It
\* throws with the token refused, with no email to lower-case, and with two
\* emails that differ.
verifyGoogleToken(email, ticket) ==
    /\ ticket # <<>>
    /\ email # Undefined
    /\ toLowerCase(email) = toLowerCase(ticket[1])

\* coreapi.js:273-285, and on to line 287
verifyIdTokenAnswered(ticket) ==
    /\ upc = "verifyIdToken"
    /\ ticketPayload' = ticket
    /\ IF verifyGoogleToken(ureq.email, ticket)
       THEN UserContinue(ureq, session)
       ELSE USend(400, FALSE, "Google token verification failed",
                  UserResult(FALSE, <<>>, <<>>), session)
    /\ UNCHANGED <<route, session0, ureq, uanswers>>
    /\ UNCHANGED <<vars, pvars>>

\* Log in user: coreapi.js:372-388, 399-415
UserLogin(found, sess) ==
    LET userID == IF found.shape = "full" THEN found.n ELSE 0
        email == Member(found, "email").step
    IN USend(200, TRUE, "User login successful",
             UserResult(TRUE, IdOf(found), <<email>>),
             [sess EXCEPT !.userContext =
                 IF isSSO(ureq) THEN ExistingSSOContext(userID, email)
                 ELSE ExistingPasswordContext(userID, email)])

\* coreapi.js:366-394 and 428-430
searchUsersAnswered(ans) ==
    /\ upc = "searchUsers"
    /\ uanswers' = Append(uanswers, Answered("searchUsers", ans, ans.status < 400))
    /\ LET details == Data("searchUsers", Len(ucalls), ans.shape) IN
       IF Raises(ans) \/ details.shape = "nodata"
       THEN UNext(session)
       ELSE IF details.shape = "full"
       THEN IF isSSO(ureq)
            THEN UserLogin(details, session)
            ELSE UCall("checkCredentials",
                       [username |-> emailOf(ureq, session), password |-> ureq.password],
                       ulocal, session,
                       USend(500, FALSE, "Unable to create user",
                             UserResult(TRUE, <<>>, <<>>), session))
       ELSE UCall("createUser", newUser(ureq, session), ulocal, session,
                  USend(500, FALSE, "TypeError: token of null",
                        UserResult(FALSE, <<>>, <<>>), session))
    /\ UNCHANGED <<route, session0, ureq, ticketPayload>>
    /\ UNCHANGED <<vars, pvars>>

credentialsAccepted_Always(ans) == TRUE

\* result.status === 200, coreapi.js:394
credentialsAccepted(ans) == ans.status = 200

\* coreapi.js:391-425
checkCredentialsAnswered(ans) ==
    /\ upc = "checkCredentials"
    /\ uanswers' = Append(uanswers, Answered("checkCredentials", ans, ans.status < 400))
    /\ LET answer == Data("checkCredentials", Len(ucalls), ans.shape) IN
       IF Raises(ans)
       THEN USend(500, FALSE, "Unable to create user", UserResult(TRUE, <<>>, <<>>), session)
       ELSE IF credentialsAccepted(ans)
       THEN IF answer.shape = "nodata"
            THEN USend(500, FALSE, "Unable to create user",
                       UserResult(TRUE, <<>>, <<>>), session)
            ELSE UserLogin(answer, session)
       ELSE USend(400, TRUE, "User authentication failed",
                  UserResult(TRUE, <<>>, <<>>), session)
    /\ UNCHANGED <<route, session0, ureq, ticketPayload>>
    /\ UNCHANGED <<vars, pvars>>

UserCreated_AnyStatus(answer, status, ok) ==
    USend(status, ok, "User created sucessfully",
          UserResult(FALSE, IdOf(answer), <<emailOf(ureq, session)>>),
          [session EXCEPT !.userContext =
              NewAccountContext(isSSO(ureq), answer.n, emailOf(ureq, session))])

\* coreapi.js:431-458, with the value createUser returned; ok is its success
\* member
UserCreated(answer, status, ok) ==
    IF answer.shape = "nodata"
    THEN USend(500, FALSE, "TypeError: property of undefined",
               UserResult(FALSE, <<>>, <<>>), session)
    ELSE IF status = 201 /\ answer.shape = "full"
    THEN USend(status, ok, "User created sucessfully",
               UserResult(FALSE, IdOf(answer), <<emailOf(ureq, session)>>),
               [session EXCEPT !.userContext =
                   NewAccountContext(isSSO(ureq), answer.n, emailOf(ureq, session))])
    ELSE USend(status, ok, "message of the CoreAPI",
               UserResult(FALSE, IdOf(answer), <<emailOf(ureq, session)>>), session)

confirms_WithoutSuccess(user, ans, ok, answer) ==
    user.confirmed = 1 /\ ans.status = 201 /\ answer.shape = "full"

\* part_002:387-392: user.confirmed === 1 && resp.status === 201 &&
\* resp.data.success && resp.data.data.id !== undefined
confirms(user, ans, ok, answer) ==
    user.confirmed = 1 /\ ans.status = 201 /\ ok /\ answer.shape = "full"

confirmFailed_Ignored(ans, ok) == FALSE

\* part_002:411-413 and 393-396: confirmUser throws unless the status is 202,
\* createUser throws unless the body's success is truthy
confirmFailed(ans, ok) == ans.status # 202 \/ ~ok

\* createUser, part_002:379-399, after its POST, and coreapi.js:428-458; ok is
\* the success member of the body, which no error answer sets
createUserAnswered(ans, ok) ==
    /\ upc = "createUser"
    /\ ok => ans.status < 400
    /\ uanswers' = Append(uanswers, Answered("createUser", ans, ok))
    /\ LET answer == Data("createUser", Len(ucalls), ans.shape)
           user == ucalls[Len(ucalls)].payload
       IN
       IF Raises(ans)
       THEN USend(500, FALSE, RaiseMessage(ans), UserResult(FALSE, <<>>, <<>>), session)
       ELSE IF confirms(user, ans, ok, answer)
       THEN UCall("confirmUser", [id |-> IdOf(answer), confirmed |-> 1],
                  <<answer>>, session,
                  USend(500, FALSE, "TypeError: token of null",
                        UserResult(FALSE, <<>>, <<>>), session))
       ELSE UserCreated(answer, ans.status, ok)
    /\ UNCHANGED <<route, session0, ureq, ticketPayload>>
    /\ UNCHANGED <<vars, pvars>>

\* confirmUser, part_002:407-415, createUser, part_002:392-398, and
\* coreapi.js:431-458
confirmUserAnswered(ans, ok) ==
    /\ upc = "confirmUser"
    /\ ok => ans.status < 400
    /\ uanswers' = Append(uanswers, Answered("confirmUser", ans, ok))
    /\ IF Raises(ans)
       THEN USend(500, FALSE, RaiseMessage(ans), UserResult(FALSE, <<>>, <<>>), session)
       ELSE IF confirmFailed(ans, ok)
       THEN USend(500, FALSE, "Unable to confirm user account",
                  UserResult(FALSE, <<>>, <<>>), session)
       ELSE UserCreated(ulocal[1], 201, TRUE)
    /\ UNCHANGED <<route, session0, ureq, ticketPayload>>
    /\ UNCHANGED <<vars, pvars>>

\* No POST /user request is under way.
UserInit(request, sess) ==
    /\ ureq = request
    /\ session = sess
    /\ upc = IF request = NoUserRequest THEN "off" ELSE "idle"
    /\ ucalls = <<>>
    /\ ulocal = <<>>
    /\ uresp = <<>>
    /\ ticketPayload = <<>>
    /\ uanswers = <<>>
    /\ route = IF request = NoUserRequest THEN "none" ELSE "POST /user"
    /\ session0 = sess

NoSession == [userContext |-> NoUserContext, githubUserDetails |-> <<>>]

HashA == "abcsr"
HashB == "xysr"
AllTokenKeys == {"token_type", "expires_in", "access_token", "hash", "expires_at"}

\* What a cache file left by an earlier process, or by anyone else, may hold
InitFiles ==
    { FileAbsent, FileUnparsable, FilePrimitive,
      \* written by an earlier run with the credentials "a","bc","s","r"
      FileObject(Obj(AllTokenKeys, 0, 1, 0, HashA)),
      FileObject(Obj(AllTokenKeys, 0, 2, 2, HashA)),
      \* written with other credentials
      FileObject(Obj(AllTokenKeys, 0, 2, 2, HashB)),
      \* objects lacking a required field
      FileObject(Obj(AllTokenKeys \ {"hash"}, 0, 2, 2, "")),
      FileObject(Obj(AllTokenKeys \ {"access_token"}, 0, 2, 2, HashA)),
      FileObject(Obj({"token_type", "access_token", "hash"}, 0, 0, 0, HashA)),
      \* an object with an index-like key beside the required fields
      FileObject(Obj(AllTokenKeys \cup {"0"}, 0, 2, 2, HashA)) }

\* part_002:15-33: the module as loaded
Init ==
    /\ credentials = credentialsInit
    /\ oauth2 = FALSE
    /\ cacheDir = "tmp"
    /\ accessToken = <<>>
    /\ fs \in [Dirs -> InitFiles]
    /\ fs["alt"] = FileAbsent
    /\ now = 0
    /\ pc = [c \in Callers |-> "idle"]
    /\ reqNo = [c \in Callers |-> 0]
    /\ tokenRequests = 0
    /\ obtained = FALSE
    /\ ev = Event("init", NoCaller, "ok", "", 0)
    /\ PipelineInit([r \in Runs |-> NoRequest])
    /\ UserInit(NoUserRequest, NoSession)

Next ==
    \/ \E cr \in CredChoices : setCredentials(cr)
    \/ \E dir \in Dirs : setCacheDir(dir)
    \/ \E c \in Callers : getAccessToken(c)
    \/ \E c \in Callers, ei \in ExpiresIn : getNewAccessTokenResolved(c, ei)
    \/ \E c \in Callers : getNewAccessTokenRejected(c)
    \/ \E c \in Callers : doRequest(c)
    \/ \E c \in Callers, status \in Statuses : doRequestAnswered(c, status)
    \/ \E c \in Callers : doRequestNetworkError(c)
    \/ Tick

Spec == Init /\ [][Next]_allvars

\* ------------------------------------------- specification of the pipeline
\* configureApp (part_003:112-126) has set the credentials; the token is in
\* memory, or its request has not come back.
PipelineToken == Obj(AllTokenKeys, 1, 1, 1, HashA)

\* The client as configureApp leaves it.
ConfiguredClient ==
    /\ credentials = <<"a", "bc", "s", "r">>
    /\ oauth2 = TRUE
    /\ cacheDir = "tmp"
    /\ accessToken \in {<<>>, <<PipelineToken>>}
    /\ fs = [d \in Dirs |-> FileAbsent]
    /\ now = 0
    /\ pc = [c \in Callers |-> "idle"]
    /\ reqNo = [c \in Callers |-> 0]
    /\ tokenRequests = 0
    /\ obtained = (accessToken # <<>>)
    /\ ev = Event("init", NoCaller, "ok", "", 0)

InitPipeline ==
    /\ ConfiguredClient
    /\ \E request \in Requests :
          PipelineInit([r \in Runs |-> IF r = "r1" THEN request ELSE NoRequest])
    /\ UserInit(NoUserRequest, NoSession)

NextPipeline ==
    \/ \E r \in Runs : imageengine(r)
    \/ \E r \in Runs, ans \in Answers : SubscriptionAnswered(r, ans)
    \/ \E r \in Runs, ans \in Answers : DomainAnswered(r, ans)
    \/ \E r \in Runs, ans \in Answers : OriginAnswered(r, ans)
    \/ \E r \in Runs, ans \in Answers : DemoRunAnswered(r, ans)
    \/ \E r \in Runs, ans \in Answers : LeadGenAnswered(r, ans)
    \/ \E r \in Runs, ans \in Answers : PasswordResetAnswered(r, ans)
    \/ \E r \in Runs, ans \in Answers, list \in RegionLists : RegionsAnswered(r, ans, list)
    \/ \E r \in Runs, ans \in Answers : DNSAnswered(r, ans)

SpecPipeline == InitPipeline /\ [][NextPipeline]_allvars

\* ------------------------------------------ specification of POST /user
\* ------------------------------------------- the gateway's other handlers
\* A handler of `path` about to run with this request, session and locals.
RouteInit(path, request, sess, local) ==
    /\ route = path
    /\ session0 = sess
    /\ ureq = request
    /\ session = sess
    /\ upc = path
    /\ ucalls = <<>>
    /\ ulocal = local
    /\ uresp = <<>>
    /\ ticketPayload = <<>>
    /\ uanswers = <<>>

\* req.body of POST /login: email and password, the only members it reads
LoginRequests ==
    {body \in UserRequests :
        /\ body.google_token = Undefined
        /\ body.github = Undefined
        /\ body.country_id = Undefined}

\* response.result of POST /login
LoginResult(user_id, email) == [user_id |-> user_id, email |-> email]

authenticationFailed_Unflagged(sess) ==
    USend(400, FALSE, "User authentication failed", LoginResult(<<>>, <<>>), sess)

\* coreapi.js:154-160
authenticationFailed(sess) ==
    USend(400, TRUE, "User authentication failed", LoginResult(<<>>, <<>>), sess)

postLogin_NoSessionTest ==
    /\ upc = "POST /login"
    /\ IF getMissingFields({"email", "password"}, ureq, FALSE) # {}
       THEN USend(400, FALSE, "Missing required field(s)", LoginResult(<<>>, <<>>),
                  session)
       ELSE IF ~emailRegexTest(toLowerCase(ureq.email))
       THEN USend(400, FALSE, "Invalid email address provided",
                  LoginResult(<<>>, <<>>), session)
       ELSE UCall("login.checkCredentials",
                  [username |-> toLowerCase(ureq.email), password |-> ureq.password],
                  ulocal, session,
                  USend(500, FALSE, "Authentication server error",
                        LoginResult(<<>>, <<>>), session))
    /\ UNCHANGED <<route, session0, ureq, ticketPayload, uanswers>>
    /\ UNCHANGED <<vars, pvars>>

\* coreapi.js:109-149, up to await coreapi.checkCredentials
postLogin ==
    /\ upc = "POST /login"
    /\ IF session.userContext # NoUserContext
       THEN USend(400, FALSE, "You must logout to access this resource",
                  LoginResult(<<>>, <<>>), session)
       ELSE IF getMissingFields({"email", "password"}, ureq, FALSE) # {}
       THEN USend(400, FALSE, "Missing required field(s)", LoginResult(<<>>, <<>>),
                  session)
       ELSE IF ~emailRegexTest(toLowerCase(ureq.email))
       THEN USend(400, FALSE, "Invalid email address provided",
                  LoginResult(<<>>, <<>>), session)
       ELSE UCall("login.checkCredentials",
                  [username |-> toLowerCase(ureq.email), password |-> ureq.password],
                  ulocal, session,
                  USend(500, FALSE, "Authentication server error",
                        LoginResult(<<>>, <<>>), session))
    /\ UNCHANGED <<route, session0, ureq, ticketPayload, uanswers>>
    /\ UNCHANGED <<vars, pvars>>

\* coreapi.js:148-189: checkCredentials answered; `ok` is the success member
\* of the body the CoreAPI sent.
loginAnswered(ans, ok) ==
    /\ upc = "login.checkCredentials"
    /\ uanswers' = Append(uanswers, Answered("login.checkCredentials", ans, ok))
    /\ LET answer == Data("checkCredentials", Len(ucalls), ans.shape) IN
       IF Raises(ans)
       THEN USend(500, FALSE, "Authentication server error", LoginResult(<<>>, <<>>),
                  session)
       ELSE IF ans.status = 400
       THEN authenticationFailed(session)
       ELSE IF ans.status # 200
       THEN USend(ans.status, ok, "result.message", LoginResult(<<>>, <<>>), session)
       ELSE IF answer.shape = "nodata"
       THEN USend(500, FALSE, "Authentication server error", LoginResult(<<>>, <<>>),
                  session)
       ELSE LET userID == IF answer.shape = "full" THEN answer.n ELSE 0
                email == Member(answer, "email").step
            IN USend(200, ok, "Login successful", LoginResult(IdOf(answer), <<email>>),
                     [session EXCEPT !.userContext = LoginContext(userID, email)])
    /\ UNCHANGED <<route, session0, ureq, ticketPayload>>
    /\ UNCHANGED <<vars, pvars>>

\* coreapi.js:193-198, up to await logoutPromise(req)
getLogout ==
    /\ upc = "GET /logout"
    /\ UGoto("destroy", ucalls, ulocal, uresp, session)
    /\ UNCHANGED <<route, session0, ureq, ticketPayload, uanswers>>
    /\ UNCHANGED <<vars, pvars>>

logoutFailed_Propagates(local, sess) == UGoto("next(err)", ucalls, local, uresp, sess)

\* coreapi.js:205-213: the catch block and the one send after it
logoutFailed(local, sess) ==
    UGoto("done", ucalls, local,
          Append(uresp, [success |-> FALSE, status |-> 400, message |-> "Logout failed"]),
          sess)

\* coreapi.js:35-39 and 199-213: req.session.destroy called back, with no
\* error (<<>>) or with the store's
destroyAnswered(err) ==
    /\ upc = "destroy"
    /\ IF err # <<>>
       THEN logoutFailed(<<[err |-> err]>>, session)
       ELSE UGoto("done", ucalls, <<[err |-> err]>>,
                  Append(uresp, [success |-> TRUE, status |-> 200,
                                 message |-> "Logged out successful"]),
                  NoSession)
    /\ UNCHANGED <<route, session0, ureq, ticketPayload, uanswers>>
    /\ UNCHANGED <<vars, pvars>>

\* response.result of GET /location
CountryResult(name, code, id) ==
    [countryName |-> name, countryCode |-> code, countryID |-> id]

\* coreapi.js:469-473
DefaultCountry == CountryResult("Unknown", "US", 230)

\* What geoipLookup.get(req.ip) gives: undefined from the stand-in of a
\* database that is not loaded (coreapi.js:18-24), null for an address the
\* database does not hold, or a record, with or without a country.
GeoResults ==
    {[geo |-> Undefined, iso_code |-> <<>>], [geo |-> JSNull, iso_code |-> <<>>],
     [geo |-> "record", iso_code |-> <<"NO">>], [geo |-> "record", iso_code |-> <<>>]}

\* coreapi.js:462-482, up to await coreapi.getCountryID
getLocation(geo) ==
    /\ upc = "GET /location"
    /\ IF geo.geo \in {Undefined, JSNull}
       THEN UGoto("done", ucalls, <<geo>>,
                  Append(uresp, Response(400, FALSE, JSNull, DefaultCountry)), session)
       ELSE IF geo.iso_code = <<>>
       THEN UGoto("next(err)", ucalls, <<geo>>, uresp, session)
       ELSE UCall("getCountryID", [code |-> geo.iso_code[1]], <<geo>>, session,
                  UGoto("next(err)", ucalls, <<geo>>, uresp, session))
    /\ UNCHANGED <<route, session0, ureq, ticketPayload, uanswers>>
    /\ UNCHANGED <<vars, pvars>>

\* part_002:759-767 after its GET, then coreapi.js:482-488
getCountryIDAnswered(ans) ==
    /\ upc = "getCountryID"
    /\ uanswers' = Append(uanswers, Answered("getCountryID", ans, ans.status < 400))
    /\ LET countryRes == Data("getCountryID", Len(ucalls), ans.shape) IN
       IF Raises(ans) \/ countryRes.shape # "full"
       THEN UNext(session)
       ELSE USend(200, TRUE, JSNull,
                  CountryResult(Member(countryRes, "name").step,
                                Member(countryRes, "code").step, countryRes.n),
                  session)
    /\ UNCHANGED <<route, session0, ureq, ticketPayload>>
    /\ UNCHANGED <<vars, pvars>>

\* ------------------------------------------ GET /github (part_000:38-150)
\* What the callback is given. codes: req.query.code. tokens: the answer of
\* github.com/login/oauth/access_token (the request fails, or the body carries
\* error_description, neither member, or access_token). profiles: the answer
\* of api.github.com/user (the request fails, or data.email is null, '', a
\* public address, or a text that holds '/@/'). emails: the answer of
\* api.github.com/user/emails (the request fails, data is not an array, or
\* data is a list of addresses).
GithubAnswers ==
    LET Addresses ==
            {[email |-> e, primary |-> p, verified |-> v] :
                e \in {"p@x.io", "s@x.io"}, p \in BOOLEAN, v \in BOOLEAN}
    IN [codes |-> {Undefined, "c0de"},
        tokens |-> {"throws", "error_description", "neither", "access_token"},
        profiles |->
            {[throws |-> TRUE, email |-> JSNull]}
            \cup {[throws |-> FALSE, email |-> e] :
                     e \in {JSNull, "", "b@x.io", "o/@/x.io"}},
        emails |->
            {[kind |-> k, list |-> <<>>] : k \in {"throws", "object"}}
            \cup {[kind |-> "list", list |-> l] :
                     l \in {<<>>} \cup {<<x>> : x \in Addresses}
                                  \cup {<<x, y>> : x \in Addresses, y \in Addresses}}]

\* res.status(status).send(text)
SendText(status, text, local, sess) ==
    UGoto("done", ucalls, local, Append(uresp, [status |-> status, text |-> text]), sess)

\* text.match('/@/'), part_000:96: the pattern is the text '/@/' made a regular
\* expression, which matches the three characters /@/
matchSlashAtSlash(text) == text = "o/@/x.io"

\* part_000:39-70, up to the await of the token exchange
getGithub(code) ==
    /\ upc = "GET /github"
    /\ IF ~Truthy(code)
       THEN SendText(400, "Unauthorized [invalid code]", ulocal, session)
       ELSE UGoto("github.token",
                  Append(ucalls, [step |-> "github.token", payload |-> [code |-> code]]),
                  ulocal, uresp, session)
    /\ UNCHANGED <<route, session0, ureq, ticketPayload, uanswers>>
    /\ UNCHANGED <<vars, pvars>>

\* part_000:70-92, up to the await of api.github.com/user
githubTokenAnswered(tok) ==
    /\ upc = "github.token"
    /\ CASE tok = "throws" -> SendText(400, "Unauthorized [Error]", ulocal, session)
         [] tok = "error_description" ->
               SendText(400, "Unauthorized [error_description]", ulocal, session)
         [] tok = "neither" ->
               SendText(400, "Unauthorized [invalid access token]", ulocal, session)
         [] OTHER ->
               UGoto("github.user",
                     Append(ucalls, [step |-> "github.user",
                                     payload |-> [code |-> "token"]]),
                     ulocal, uresp, session)
    /\ UNCHANGED <<route, session0, ureq, ticketPayload, uanswers>>
    /\ UNCHANGED <<vars, pvars>>

\* part_000:140-145: the profile goes into the session, the page is sent
storeProfile(email, local, sess) ==
    SendText(200, "html", local,
             [sess EXCEPT !.githubUserDetails = <<[email |-> email]>>])

\* part_000:92-104 and 140-149: the profile arrived
githubUserAnswered(profile) ==
    /\ upc = "github.user"
    /\ LET local == <<[profile |-> profile.email, emails |-> [kind |-> "none", list |-> <<>>]]>> IN
       IF profile.throws
       THEN SendText(400, "Unauthorized [Error]", ulocal, session)
       ELSE IF ~Truthy(profile.email) \/ ~matchSlashAtSlash(profile.email)
       THEN UGoto("github.emails",
                  Append(ucalls, [step |-> "github.emails",
                                  payload |-> [code |-> "token"]]),
                  local, uresp, session)
       ELSE storeProfile(profile.email, local, session)
    /\ UNCHANGED <<route, session0, ureq, ticketPayload, uanswers>>
    /\ UNCHANGED <<vars, pvars>>

\* part_000:109-121: chosenEmail from the list of addresses, '' if none
chooseEmail(list) ==
    LET primary == SelectSeq(list, LAMBDA a : a.primary)
        verified == SelectSeq(list, LAMBDA a : a.verified)
    IN IF Len(primary) > 0 THEN primary[1].email
       ELSE IF Len(verified) > 0 THEN verified[1].email
       ELSE ""

\* part_000:104-149: the list of addresses arrived, or the request failed
githubEmailsAnswered(emails) ==
    /\ upc = "github.emails"
    /\ LET chosenEmail == IF emails.kind = "list" THEN chooseEmail(emails.list) ELSE ""
           local == <<[ulocal[1] EXCEPT !.emails = emails]>>
       IN IF ~Truthy(chosenEmail)
          THEN SendText(400, "Unauthorized [unable to determine email address]",
                        local, session)
          ELSE storeProfile(chosenEmail, local, session)
    /\ UNCHANGED <<route, session0, ureq, ticketPayload, uanswers>>
    /\ UNCHANGED <<vars, pvars>>

\* ------------------------- searchUsers of the client (part_002:267-329)
\* terms: not given, or an object as the list of its members in key order
SearchTerms ==
    LET Values == {"", "a@x.io", "j d"}
        Pair(k, v) == [key |-> k, value |-> v]
    IN {[given |-> FALSE, pairs |-> <<>>], [given |-> TRUE, pairs |-> <<>>]}
       \cup {[given |-> TRUE, pairs |-> <<Pair(k, v)>>] :
                k \in {"email", "username"}, v \in Values}
       \cup {[given |-> TRUE, pairs |-> <<Pair(k[1], v), Pair(k[2], w)>>] :
                k \in {<<"email", "username">>, <<"username", "email">>},
                v \in Values, w \in Values}

\* withTerms: not given, or a list of relationships
WithTerms ==
    LET Names == {"subscriptions", "country", "a/b"}
    IN {[given |-> FALSE, names |-> <<>>], [given |-> TRUE, names |-> <<>>]}
       \cup {[given |-> TRUE, names |-> <<n>>] : n \in Names}
       \cup {[given |-> TRUE, names |-> <<n, m>>] : n \in Names, m \in Names}

\* encodeURIComponent on the texts above: '@', ' ' and '/' are escaped
encodeURIComponent(text) ==
    CASE text = "a@x.io" -> "a%40x.io"
      [] text = "j d" -> "j%20d"
      [] text = "a/b" -> "a%2Fb"
      [] OTHER -> text

\* Array.prototype.join
RECURSIVE join(_, _)
join(texts, separator) ==
    IF Len(texts) = 0 THEN ""
    ELSE IF Len(texts) = 1 THEN texts[1]
    ELSE texts[1] \o separator \o join(Tail(texts), separator)

\* part_002:267-282
constructSearch(terms) ==
    IF ~terms.given THEN ""
    ELSE LET kept == SelectSeq(terms.pairs, LAMBDA t : t.value # "")
             searches == [i \in 1..Len(kept) |->
                             kept[i].key \o "=" \o encodeURIComponent(kept[i].value)]
         IN "/search:(" \o join(searches, "") \o ")"

\* part_002:284-290
constructWith(terms) ==
    IF ~terms.given THEN ""
    ELSE "/with:(" \o
         join([i \in 1..Len(terms.names) |-> encodeURIComponent(terms.names[i])], ",")
         \o ")"

\* part_002:325-327: the path is built and the GET is sent
searchUsers ==
    /\ upc = "coreapi.searchUsers"
    /\ UCall("doGet",
             [path |-> "/users" \o constructSearch(ulocal[1].terms)
                       \o constructWith(ulocal[1].withTerms)],
             ulocal, session,
             UGoto("thrown", ucalls, ulocal, uresp, session))
    /\ UNCHANGED <<route, session0, ureq, ticketPayload, uanswers>>
    /\ UNCHANGED <<vars, pvars>>

\* Two POST /imageengine requests of one session, that of an SSO account just
\* registered; the first carries a queryString. Their steps interleave.
InitTwoRuns ==
    /\ ConfiguredClient
    /\ PipelineInit([r \in Runs |->
          [ctx |-> NewAccountContext(TRUE, 7, "u@x.io"), accountName |-> "demo",
           origin |-> "https://example.com",
           queryString |-> IF r = "r1" THEN "utm=1" ELSE Undefined,
           campaignName |-> Undefined]])
    /\ UserInit(NoUserRequest, NoSession)

\* The steps of the two runs, each call answered with the created object or
\* with a 500.
NextTwoRuns ==
    LET Created == [status |-> 201, shape |-> "full"]
        TwoRunAnswers == {Created, [status |-> 500, shape |-> "none"]}
        Regions == <<[RegionName |-> "us-east-1", Deploy |-> "ALL"]>>
    IN \/ \E r \in Runs : imageengine(r)
       \/ \E r \in Runs, ans \in TwoRunAnswers : SubscriptionAnswered(r, ans)
       \/ \E r \in Runs, ans \in TwoRunAnswers : DomainAnswered(r, ans)
       \/ \E r \in Runs, ans \in TwoRunAnswers : OriginAnswered(r, ans)
       \/ \E r \in Runs, ans \in TwoRunAnswers : DemoRunAnswered(r, ans)
       \/ \E r \in Runs, ans \in TwoRunAnswers : LeadGenAnswered(r, ans)
       \/ \E r \in Runs, ans \in TwoRunAnswers : PasswordResetAnswered(r, ans)
       \/ \E r \in Runs, ans \in TwoRunAnswers : RegionsAnswered(r, ans, Regions)
       \/ \E r \in Runs, ans \in TwoRunAnswers : DNSAnswered(r, ans)

SpecTwoRuns == InitTwoRuns /\ [][NextTwoRuns]_allvars

InitUser ==
    /\ ConfiguredClient
    /\ PipelineInit([r \in Runs |-> NoRequest])
    /\ \E request \in UserRequests \ {NoUserRequest}, sess \in Sessions :
          UserInit(request, sess)

NextUser ==
    \/ postUser
    \/ \E ticket \in Tickets : verifyIdTokenAnswered(ticket)
    \/ \E ans \in UserAnswers : searchUsersAnswered(ans)
    \/ \E ans \in UserAnswers : checkCredentialsAnswered(ans)
    \/ \E ans \in UserAnswers, ok \in BOOLEAN : createUserAnswered(ans, ok)
    \/ \E ans \in UserAnswers, ok \in BOOLEAN : confirmUserAnswered(ans, ok)

SpecUser == InitUser /\ [][NextUser]_allvars

InitGateway ==
    /\ ConfiguredClient
    /\ PipelineInit([r \in Runs |-> NoRequest])
    /\ \/ \E request \in UserRequests \ {NoUserRequest}, sess \in Sessions :
             UserInit(request, sess)
       \/ \E request \in LoginRequests, sess \in Sessions :
             RouteInit("POST /login", request, sess, <<>>)
       \/ \E sess \in Sessions : RouteInit("GET /logout", NoUserRequest, sess, <<>>)
       \/ \E sess \in Sessions : RouteInit("GET /location", NoUserRequest, sess, <<>>)
       \/ \E sess \in {s \in Sessions : s.githubUserDetails = <<>>} :
             RouteInit("GET /github", NoUserRequest, sess, <<>>)
       \/ \E terms \in SearchTerms, withTerms \in WithTerms :
             RouteInit("coreapi.searchUsers", NoUserRequest, NoSession,
                       <<[terms |-> terms, withTerms |-> withTerms]>>)

NextGateway ==
    \/ NextUser
    \/ postLogin
    \/ \E ans \in UserAnswers, ok \in BOOLEAN : loginAnswered(ans, ok)
    \/ getLogout
    \/ \E err \in {<<>>, <<"store error">>} : destroyAnswered(err)
    \/ \E geo \in GeoResults : getLocation(geo)
    \/ \E ans \in UserAnswers : getCountryIDAnswered(ans)
    \/ \E code \in GithubAnswers.codes : getGithub(code)
    \/ \E tok \in GithubAnswers.tokens : githubTokenAnswered(tok)
    \/ \E profile \in GithubAnswers.profiles : githubUserAnswered(profile)
    \/ \E emails \in GithubAnswers.emails : githubEmailsAnswered(emails)
    \/ searchUsers

SpecGateway == InitGateway /\ [][NextGateway]_allvars

\* The three handlers that asyncroutes wraps and the claims name: one request
\* to POST /user, to POST /login or to POST /imageengine.
InitRoutes ==
    \/ InitGateway /\ route \in {"POST /user", "POST /login"}
    \/ InitPipeline

NextRoutes ==
    \/ NextUser
    \/ postLogin
    \/ \E ans \in UserAnswers, ok \in BOOLEAN : loginAnswered(ans, ok)
    \/ NextPipeline

SpecRoutes == InitRoutes /\ [][NextRoutes]_allvars

\* =================================================================== claims
\* the cache file of the current cache directory
CacheFile == fs[getCacheFilepath]

\* the flows suspended on the token endpoint
InFlight == { c \in Callers : pc[c] = "awaitToken" }

\* C1: no CoreAPI request is sent with an expired bearer token: the transport
\* refreshes an absent or expired token before it issues the HTTP call.
C1_NoRequestWithExpiredToken ==
    (ev.op = "doRequest" /\ ev.outcome = "sent") => ev.detail # "expired"

\* C2: at most one client-credentials request is in flight at any time, so two
\* concurrent getAccessToken() calls with no valid cached token make one request.
C2_SingleFlight == Cardinality(InFlight) <= 1

\* C3: whenever getAccessToken() completes successfully, directly or after a
\* token request, the in-memory token exists and its expiry is not in the past.
C3_CompletedTokenNotExpired ==
    (ev.op \in {"getAccessToken", "getNewAccessToken"} /\ ev.outcome = "ok")
        => /\ accessToken # <<>>
           /\ "expires_at" \in accessToken[1].keys => now <= accessToken[1].expires_at

\* C3 witness: a token request succeeded for a call that found an expired token
C3_Witness ==
    /\ ev.op = "getNewAccessToken" /\ ev.outcome = "ok" /\ ev.detail = "expired"
    /\ accessToken # <<>> /\ now <= accessToken[1].expires_at

\* the stored hash of the cache file differs from the hash of the credentials
StoredHashDiffers ==
    /\ CacheFile.kind = "object"
    /\ "hash" \in CacheFile.obj.keys
    /\ CacheFile.obj.hash # getCacheIntegrityHash

\* C4: a getAccessToken() call that finds a cache file whose stored hash differs
\* from the hash of the current credentials deletes the file, does not install
\* the file's token, and issues a token request.
C4_HashMismatchDeletesAndRefetches ==
    [][(ev'.op = "getAccessToken" /\ StoredHashDiffers)
          => /\ fs'[cacheDir] = FileAbsent
             /\ accessToken' = accessToken
             /\ accessToken' # <<create(CacheFile.obj)>>
             /\ ev'.outcome = "pending"
             /\ pc'[ev'.who] = "awaitToken"
             /\ tokenRequests' = tokenRequests + 1]_vars

\* C4 witness: a call has just rejected a file for its hash and awaits a token
C4_Witness ==
    /\ ev.op = "getAccessToken" /\ ev.detail = "hash" /\ ev.outcome = "pending"
    /\ CacheFile = FileAbsent /\ accessToken = <<>>

\* the cache file is a JSON object without one of the required fields
LacksRequiredField ==
    /\ CacheFile.kind = "object"
    /\ \E i \in 1..Len(cacheDataTemplate) : cacheDataTemplate[i] \notin CacheFile.obj.keys

\* C5: a getAccessToken() call that finds a JSON cache file lacking token_type,
\* expires_in, access_token or hash deletes the file and does not install its
\* content as the in-memory token.
C5_FileLackingFieldRejected ==
    [][(ev'.op = "getAccessToken" /\ LacksRequiredField)
          => /\ fs'[cacheDir] = FileAbsent
             /\ accessToken' = accessToken]_vars

\* C6: a getAccessToken() call that finds an unparsable cache file deletes it and
\* does not fail; with no token in memory it issues a token request.
C6_UnparsableDeletedAndFallsThrough ==
    [][(ev'.op = "getAccessToken" /\ CacheFile.kind = "unparsable")
          => /\ fs'[cacheDir] = FileAbsent
             /\ ev'.outcome # "raised"
             /\ accessToken' = accessToken
             /\ accessToken = <<>>
                  => /\ ev'.outcome = "pending"
                     /\ pc'[ev'.who] = "awaitToken"
                     /\ tokenRequests' = tokenRequests + 1]_vars

\* C6 witness: an unparsable file was just removed and a token request is out
C6_Witness ==
    /\ ev.op = "getAccessToken" /\ ev.detail = "parse" /\ ev.outcome = "pending"
    /\ CacheFile = FileAbsent /\ tokenRequests = 1

\* C7: setCredentials() and setCacheDir() raise exactly when a token has already
\* been obtained, and then leave credentials and cache directory as they were;
\* before any token has been obtained they succeed.
C7_ConfigurationFrozenOnceTokenObtained ==
    [][(ev'.op \in {"setCredentials", "setCacheDir"})
          => /\ ev'.outcome \in {"ok", "raised"}
             /\ (ev'.outcome = "raised") <=> obtained
             /\ ev'.outcome = "raised"
                  => /\ credentials' = credentials
                     /\ cacheDir' = cacheDir
                     /\ oauth2' = oauth2]_vars

\* C7 witness: setCredentials() has just been refused after a token was obtained
C7_Witness ==
    /\ ev.op = "setCredentials" /\ ev.outcome = "raised"
    /\ obtained /\ credentials \in CredChoices

\* C8: after a failed token request getAccessToken() has raised and the cache
\* holds no token: no failed or stale token is kept as the current token.
C8_FailedRequestLeavesNoToken ==
    (ev.op = "getNewAccessToken" /\ ev.outcome = "raised") => accessToken = <<>>

\* what saveCachedAccessToken writes for a token
CacheFileFor(token) ==
    FileObject([token EXCEPT !.keys = @ \cup {"hash"}, !.hash = getCacheIntegrityHash])

\* a token issued by the token endpoint in this run (cache files found at start
\* carry access_token 0)
Refreshed == accessToken # <<>> /\ accessToken[1].access_token > 0

\* C9: after a successful refresh the cache file holds the new token's fields
\* plus the hash of the current credentials; from then on, whatever refreshes
\* interleave, the file is the one written for the in-memory token, and loading
\* it is accepted and yields that token.
C9_FileMatchesRefreshedToken ==
    /\ (ev.op = "getNewAccessToken" /\ ev.outcome = "ok") => Refreshed
    /\ Refreshed
         => /\ CacheFile = CacheFileFor(accessToken[1])
            /\ getCachedAccessToken = Loaded("none", FALSE, <<CacheFileFor(accessToken[1]).obj>>)

\* C9 witness: both flows refreshed, the later answer arriving first, and a
\* later call restored the token from the file without a token request
C9_Witness ==
    /\ ev.op = "getAccessToken" /\ ev.outcome = "ok" /\ ev.detail = "none"
    /\ Refreshed /\ tokenRequests = 2 /\ InFlight = {}
    /\ accessToken[1].access_token = 1
    /\ "hash" \in accessToken[1].keys

\* C10: the transport returns the response exactly when the status is below 400,
\* or 400, or 404; for any other status and for a network error it raises.
C10_ReturnsExactlyNonExceptionalStatuses ==
    (ev.op = "response")
        => ((ev.outcome = "returned")
              <=> /\ ev.detail # "network"
                  /\ ev.status < 400 \/ ev.status = 400 \/ ev.status = 404)

\* C10 witness: a 404 answer was returned to the caller
C10_Witness == ev.op = "response" /\ ev.status = 404 /\ ev.outcome = "returned"

\* ====================================================== claims: the pipeline
StepOrder ==
    <<"Subscription", "Domain", "Origin", "DemoRun", "LeadGen", "PasswordReset",
      "Regions", "DNS">>

OptionalSteps == {"LeadGen", "PasswordReset"}

Rank(step) == CHOOSE i \in 1..Len(StepOrder) : StepOrder[i] = step

Awaiting(r) == \E i \in 1..Len(StepOrder) : StepOrder[i] = ppc[r]

StepsOf(r) == [i \in 1..Len(pcalls[r]) |-> pcalls[r][i].step]

Called(r, step) == \E i \in 1..Len(pcalls[r]) : pcalls[r][i].step = step

\* C11: the calls of a run are issued one at a time, each after the answer to
\* the one before it, in the order Subscription, Domain, Origin, DemoRun,
\* LeadGen, PasswordReset, Regions, DNS, leaving out none but LeadGen and
\* PasswordReset; and the Origin payload's origin_conf_id is the id the Domain
\* creation of the same run returned.
C11_SequentialFixedOrder ==
    \A r \in Runs :
        /\ \A i \in 1..Len(pcalls[r]) :
              LET k == Rank(pcalls[r][i].step)
                  before == IF i = 1 THEN 0 ELSE Rank(pcalls[r][i - 1].step)
              IN /\ \E j \in 1..Len(StepOrder) : StepOrder[j] = pcalls[r][i].step
                 /\ k > before
                 /\ \A j \in (before + 1)..(k - 1) : StepOrder[j] \in OptionalSteps
        /\ Len(pcalls[r]) = pdone[r] + (IF Awaiting(r) THEN 1 ELSE 0)
        /\ Awaiting(r) => pcalls[r][Len(pcalls[r])].step = ppc[r]
        /\ \A i \in 1..Len(pcalls[r]) :
              pcalls[r][i].step = "Origin" =>
                 /\ plocal[r].domainResult.step = "Domain"
                 /\ pcalls[r][i].payload.origin_conf_id = IdOf(plocal[r].domainResult)

C11_Witness ==
    \E r \in Runs :
        /\ ppc[r] = "done"
        /\ StepsOf(r) = <<"Subscription", "Domain", "Origin", "DemoRun",
                          "PasswordReset", "Regions", "DNS">>
        /\ pcalls[r][3].payload.origin_conf_id = <<2>>

\* C12: a step of the run that raises an exception issues no call, and no
\* call is issued by the run after it: no later step, no compensating call.
C12_NothingAfterRaise ==
    [][\A r \in Runs : perr'[r] # <<>> => pcalls'[r] = pcalls[r]]_allvars

C12_Witness ==
    \E r \in Runs :
        /\ perr[r] # <<>>
        /\ ppc[r] = "done"
        /\ StepsOf(r) = <<"Subscription", "Domain", "Origin">>

\* C13: a run in which a step raised has sent exactly one response, of HTTP
\* status 500 with success false and the raised exception's message.
C13_RaiseGivesOne500 ==
    \A r \in Runs :
        perr[r] # <<>> =>
            /\ Len(presp[r]) = 1
            /\ presp[r][1].status = 500
            /\ presp[r][1].success = FALSE
            /\ presp[r][1].message = perr[r][1]

C13_Witness ==
    \E r \in Runs :
        /\ perr[r] = <<"Request failed with status code">>
        /\ Called(r, "DemoRun")
        /\ Len(presp[r]) = 1

\* C14: every Domain, Origin, DemoRun and LeadGen request of a run carries as
\* subscription_id the id the Subscription creation of that run returned,
\* never the placeholder -1, and is sent only after that creation succeeded.
C14_SubscriptionIdThreaded ==
    \A r \in Runs : \A i \in 1..Len(pcalls[r]) :
        pcalls[r][i].step \in {"Domain", "Origin", "DemoRun", "LeadGen"} =>
            /\ plocal[r].subscription.step = "Subscription.subscription"
            /\ plocal[r].subscription.shape = "full"
            /\ pcalls[r][i].payload.subscription_id = <<plocal[r].subscription.n>>
            /\ pcalls[r][i].payload.subscription_id # <<-1>>
            /\ pcalls[r][1].step = "Subscription"

C14_Witness ==
    \E r \in Runs : \E i \in 1..Len(pcalls[r]) :
        /\ pcalls[r][i].step = "LeadGen"
        /\ pcalls[r][i].payload.subscription_id = <<1>>

\* A request whose session has a logged-in userContext with a userID, whose
\* accountName and origin are present and not empty, and whose origin parses
\* as a URL.
Validated(req) ==
    /\ req.ctx # NoUserContext
    /\ req.ctx[1].loggedIn
    /\ req.ctx[1].userID # 0
    /\ req.accountName \notin {Undefined, JSNull, ""}
    /\ req.origin \in {"https://example.com", "https://example.com//"}

\* C15: a run calls the CoreAPI only for a validated request, and a run of any
\* other request ends with one response of status 400 and success false,
\* without a call.
C15_NoCallUnlessValidated ==
    \A r \in Runs :
        /\ pcalls[r] # <<>> => Validated(preq[r])
        /\ (ppc[r] = "done" /\ ~Validated(preq[r])) =>
              /\ pcalls[r] = <<>>
              /\ Len(presp[r]) = 1
              /\ presp[r][1].status = 400
              /\ presp[r][1].success = FALSE

\* C16: a run requests the password-reset email only when its session's
\* userContext has isSSO and justRegistered both set, requests it whenever
\* they are and the run gets that far, and never for the userContext a login
\* or a registration by password or an SSO login to an existing account leaves.
C16_ResetOnlyForNewSSOAccount ==
    \A r \in Runs :
        LET ctx == preq[r].ctx IN
        /\ Called(r, "PasswordReset") => (ctx[1].isSSO /\ ctx[1].justRegistered)
        /\ (Called(r, "Regions") /\ ctx[1].isSSO /\ ctx[1].justRegistered)
              => Called(r, "PasswordReset")
        /\ (\E u \in UserIDs :
               ctx \in {LoginContext(u, "u@x.io"), ExistingSSOContext(u, "u@x.io"),
                        ExistingPasswordContext(u, "u@x.io"),
                        NewAccountContext(FALSE, u, "u@x.io")})
              => ~Called(r, "PasswordReset")
        /\ \A i \in 1..Len(pcalls[r]) :
              pcalls[r][i].step = "PasswordReset" =>
                 pcalls[r][i].payload.email = Member(plocal[r].user, "email")

C16_Witness ==
    \E r \in Runs :
        /\ Called(r, "PasswordReset")
        /\ preq[r].ctx = NewAccountContext(TRUE, 7, "u@x.io")

\* C17: a run creates the LeadGenReferrer only for a request with a non-empty
\* queryString, and creates it for every such request once the demo run is
\* created; its campaign_name is the request's campaignName, or the empty
\* text without one, and its subscription_id is this run's subscription id.
C17_LeadGenIffQueryString ==
    \A r \in Runs :
        /\ Called(r, "LeadGen") => preq[r].queryString \notin {Undefined, JSNull, ""}
        /\ (Called(r, "Regions") \/ Called(r, "PasswordReset"))
              => (Called(r, "LeadGen") <=> preq[r].queryString = "utm=x")
        /\ \A i \in 1..Len(pcalls[r]) :
              pcalls[r][i].step = "LeadGen" =>
                 /\ pcalls[r][i].payload.campaign_name =
                       (IF preq[r].campaignName = Undefined THEN ""
                        ELSE preq[r].campaignName)
                 /\ pcalls[r][i].payload.subscription_id = <<plocal[r].subscription.n>>
                 /\ pcalls[r][i].payload.url_query_string = preq[r].queryString

C17_Witness ==
    \E r \in Runs : \E i \in 1..Len(pcalls[r]) :
        /\ pcalls[r][i].step = "LeadGen"
        /\ preq[r].campaignName = Undefined
        /\ pcalls[r][i].payload.campaign_name = ""

\* C18: the DNS request of a run holds exactly one record per region of the
\* regions answer whose Deploy is 'ALL', of type 'A' and pointing at the cname
\* the run generated, and no record for a region of another Deploy value.
C18_OneARecordPerDeployAllRegion ==
    \A r \in Runs : \A i \in 1..Len(pcalls[r]) :
        pcalls[r][i].step = "DNS" =>
            LET records == pcalls[r][i].payload.records
                regions == plocal[r].regions
                all == {k \in 1..Len(regions) : regions[k].Deploy = "ALL"}
            IN /\ Len(records) = Cardinality(all)
               /\ \A k \in all :
                     Cardinality({j \in 1..Len(records) :
                                     records[j].region = regions[k].RegionName}) = 1
               /\ \A j \in 1..Len(records) :
                     /\ records[j].type = "A"
                     /\ records[j].domain = plocal[r].cname
                     /\ records[j].domain = pcalls[r][2].payload.cname
                     /\ \E k \in all : regions[k].RegionName = records[j].region

C18_Witness ==
    \E r \in Runs : \E i \in 1..Len(pcalls[r]) :
        /\ pcalls[r][i].step = "DNS"
        /\ Len(plocal[r].regions) = 3
        /\ Len(pcalls[r][i].payload.records) = 2

\* C19: the response of a run whose steps all completed without raising
\* bundles in result exactly user, subscription, origin, domain, dns, demo and
\* leadGen, each the data the corresponding call of this run returned, with
\* leadGen null when the LeadGen step was not executed.
C19_ResultBundlesThisRun ==
    \A r \in Runs :
        (ppc[r] = "done" /\ perr[r] = <<>> /\ pcalls[r] # <<>>) =>
            /\ Len(presp[r]) = 1
            /\ presp[r][1].status < 400
            /\ Len(presp[r][1].result) = 1
            /\ LET bundle == presp[r][1].result[1]
                   local == plocal[r]
               IN /\ DOMAIN bundle = {"user", "subscription", "origin", "domain",
                                      "dns", "demo", "leadGen"}
                  /\ bundle.user = local.user
                  /\ bundle.user.step = "Subscription.user"
                  /\ bundle.subscription = local.subscription
                  /\ bundle.subscription.step = "Subscription.subscription"
                  /\ bundle.origin = DataOf(local.originResult)
                  /\ local.originResult.step = "Origin"
                  /\ bundle.domain = DataOf(local.domainResult)
                  /\ local.domainResult.step = "Domain"
                  /\ bundle.dns = DataOf(local.dnsAnswer)
                  /\ local.dnsAnswer.step = "DNS"
                  /\ bundle.demo = DataOf(local.demoRunResults)
                  /\ local.demoRunResults.step = "DemoRun"
                  /\ bundle.leadGen = (IF Called(r, "LeadGen")
                                       THEN DataOf(local.leadGenReferrer) ELSE Null)
                  /\ Called(r, "LeadGen") => local.leadGenReferrer.step = "LeadGen"

C19_Witness ==
    \E r \in Runs :
        /\ ppc[r] = "done"
        /\ perr[r] = <<>>
        /\ ~Called(r, "LeadGen")
        /\ Len(presp[r]) = 1
        /\ presp[r][1].status = 201
        /\ presp[r][1].result[1].leadGen = Null
        /\ presp[r][1].result[1].dns.step = "DNS"

\* ===================================================== claims: POST /user
\* Two emails that are the same but for the case of their letters.
SameIgnoringCase(a, b) ==
    \/ a = b
    \/ \E class \in {{"a@x.io", "A@x.io"}, {"b@x.io", "B@x.io"}} : {a, b} \subseteq class

\* C20: a POST /user request with a google_token whose verified token carries
\* an email other than the claimed one, letter case aside, is answered with
\* an error response, sends no call to the CoreAPI (so creates no account),
\* and leaves the session without a logged-in user.
C20_ForgedGoogleIdentityRejected ==
    (/\ Truthy(ureq.google_token)
     /\ ticketPayload # <<>>
     /\ (ureq.email = Undefined \/ ~SameIgnoringCase(ureq.email, ticketPayload[1])))
    => /\ upc = "done"
       /\ Len(uresp) = 1
       /\ uresp[1].status = 400
       /\ uresp[1].success = FALSE
       /\ \A i \in 1..Len(ucalls) : ucalls[i].step # "createUser"
       /\ ucalls = <<>>
       /\ session.userContext = NoUserContext

C20_Witness ==
    /\ Truthy(ureq.google_token)
    /\ ureq.email = "A@x.io"
    /\ ticketPayload = <<"b@x.io">>
    /\ upc = "done"
    /\ uresp[1].message = "Google token verification failed"

HasAnswer(step) == \E i \in 1..Len(uanswers) : uanswers[i].step = step

AnswerOf(step) == uanswers[CHOOSE i \in 1..Len(uanswers) : uanswers[i].step = step]

\* The call came back with a status that doRequest hands to its caller.
Returned(a) == a.status \in {200, 201, 202, 400, 404}

UCalled(step) == \E i \in 1..Len(ucalls) : ucalls[i].step = step

LoggedIn == session.userContext # NoUserContext

SSORequest == ureq.google_token = "1" \/ ureq.github = "1"

\* searchUsers found an account with the email of the request.
AccountExists ==
    /\ HasAnswer("searchUsers")
    /\ Returned(AnswerOf("searchUsers"))
    /\ AnswerOf("searchUsers").shape = "full"

\* searchUsers found no account with the email of the request.
NoAccount ==
    /\ HasAnswer("searchUsers")
    /\ Returned(AnswerOf("searchUsers"))
    /\ AnswerOf("searchUsers").shape = "empty"

\* C21: when an account with the email exists, POST /user never calls
\* createUser; an SSO caller is logged in without a checkCredentials call; a
\* caller with a password is logged in only after checkCredentials answered
\* 200, and otherwise is not logged in and gets an error response, which is
\* the authentication failure (400, 'User authentication failed') whenever
\* checkCredentials answered at all.
C21_ExistingAccountLoginOnly ==
    AccountExists =>
        /\ ~UCalled("createUser")
        /\ SSORequest =>
              /\ ~UCalled("checkCredentials")
              /\ upc = "done"
              /\ LoggedIn
              /\ session.userContext[1].justRegistered = FALSE
              /\ Len(uresp) = 1
              /\ uresp[1].status = 200
        /\ ~SSORequest =>
              /\ LoggedIn =>
                    /\ HasAnswer("checkCredentials")
                    /\ AnswerOf("checkCredentials").status = 200
              /\ (HasAnswer("checkCredentials")
                    /\ AnswerOf("checkCredentials").status # 200) =>
                    /\ ~LoggedIn
                    /\ upc = "done"
                    /\ Len(uresp) = 1
                    /\ uresp[1].status >= 400
                    /\ Returned(AnswerOf("checkCredentials")) =>
                          /\ uresp[1].status = 400
                          /\ uresp[1].message = "User authentication failed"

C21_Witness ==
    /\ AccountExists
    /\ ~SSORequest
    /\ HasAnswer("checkCredentials")
    /\ AnswerOf("checkCredentials").status = 400
    /\ uresp[1].message = "User authentication failed"
    /\ ~LoggedIn

\* C22: when no account with the email exists, POST /user asks the CoreAPI to
\* create one whose username is its email, the email of the request, and once
\* the creation has come back as done (201 with the new id, and for a password
\* account the confirmation too) the session's userContext holds the new id,
\* justRegistered true and loggedIn true.
C22_NewAccountCreatedAndLoggedIn ==
    NoAccount =>
        /\ accessToken # <<>> => UCalled("createUser")
        /\ \A i \in 1..Len(ucalls) :
              ucalls[i].step = "createUser" =>
                 /\ ucalls[i].payload.username = ucalls[i].payload.email
                 /\ ucalls[i].payload.email =
                       (IF ureq.github = "1" THEN session.githubUserDetails[1].email
                        ELSE IF ureq.google_token = "1" THEN ureq.email
                        ELSE IF ureq.email = "A@x.io" THEN "a@x.io" ELSE ureq.email)
        /\ (/\ HasAnswer("createUser")
            /\ AnswerOf("createUser").status = 201
            /\ AnswerOf("createUser").shape = "full"
            /\ SSORequest \/ (/\ HasAnswer("confirmUser")
                              /\ AnswerOf("confirmUser").status = 202
                              /\ AnswerOf("confirmUser").success)) =>
              /\ upc = "done"
              /\ Len(uresp) = 1
              /\ uresp[1].status = 201
              /\ LoggedIn
              /\ session.userContext[1].loggedIn
              /\ session.userContext[1].justRegistered
              /\ session.userContext[1].isSSO = SSORequest
              /\ <<session.userContext[1].userID>> = uresp[1].result.user_id
              /\ session.userContext[1].userID = 2
              /\ session.userContext[1].email = ucalls[2].payload.email

C22_Witness ==
    /\ NoAccount
    /\ ~SSORequest
    /\ HasAnswer("confirmUser")
    /\ LoggedIn
    /\ session.userContext[1].justRegistered
    /\ ucalls[2].payload.username = "a@x.io"

\* A POST /user request for a password account that passes every check but
\* the one of the password's length.
PasswordRequest ==
    /\ ~SSORequest
    /\ ureq.email \in {"a@x.io", "A@x.io", "b@x.io"}
    /\ ureq.country_id # Undefined
    /\ ureq.password # Undefined

\* C24: POST /user for a password account answers a password of fewer than 5
\* or more than 32 characters with the validation error and without a call
\* to the CoreAPI, and lets a password of 5 to 32 characters through to the
\* search for the account.
C24_PasswordLength5To32 ==
    (PasswordRequest /\ upc \notin {"idle", "off"}) =>
        IF Len(ureq.password) \in 5..32
        THEN /\ \A i \in 1..Len(uresp) : uresp[i].message # "Invalid password"
             /\ accessToken # <<>> => UCalled("searchUsers")
        ELSE /\ upc = "done"
             /\ ucalls = <<>>
             /\ Len(uresp) = 1
             /\ uresp[1].status = 400
             /\ uresp[1].success = FALSE
             /\ uresp[1].message = "Invalid password"

C24_Witness ==
    /\ PasswordRequest
    /\ Len(ureq.password) = 32
    /\ UCalled("searchUsers")

C24_WitnessRejected ==
    /\ PasswordRequest
    /\ Len(ureq.password) = 33
    /\ upc = "done"
    /\ uresp[1].message = "Invalid password"

\* The request of POST /login or of POST /user for a password account lacks a
\* field or carries an email that is not an address.
MalformedRequest ==
    /\ ~SSORequest
    /\ \/ ureq.email \notin {"a@x.io", "A@x.io", "b@x.io"}
       \/ ureq.password = Undefined
       \/ route = "POST /user" /\ ureq.country_id = Undefined

CheckStep == IF route = "POST /login" THEN "login.checkCredentials" ELSE "checkCredentials"

\* C23: on POST /login and on POST /user a malformed request is answered 400
\* with success false before any credentials check, credentials the CoreAPI
\* refuses (its answer 400) are answered 400 with success true, and among the
\* 400 answers success is true exactly when the credentials check was
\* answered.
C23_SuccessFlagSeparatesFailures ==
    (route \in {"POST /login", "POST /user"} /\ upc \notin {"POST /login", "idle"}) =>
        /\ MalformedRequest =>
              /\ upc = "done"
              /\ ~UCalled(CheckStep)
              /\ Len(uresp) = 1
              /\ uresp[1].status = 400
              /\ uresp[1].success = FALSE
        /\ (HasAnswer(CheckStep) /\ AnswerOf(CheckStep).status = 400) =>
              /\ upc = "done"
              /\ Len(uresp) = 1
              /\ uresp[1].status = 400
              /\ uresp[1].success = TRUE
              /\ uresp[1].message = "User authentication failed"
        /\ (upc = "done" /\ uresp[1].status = 400) =>
              (uresp[1].success <=> HasAnswer(CheckStep))

C23_Witness ==
    /\ route = "POST /login"
    /\ HasAnswer("login.checkCredentials")
    /\ AnswerOf("login.checkCredentials").status = 400
    /\ uresp[1].success = TRUE
    /\ uresp[1].status = 400

\* C25: POST /login refuses a password of fewer than 5 or more than 32
\* characters in its validation of the request, before the credentials go to
\* the CoreAPI.
C25_LoginPasswordLengthChecked ==
    (/\ route = "POST /login"
     /\ ureq.password # Undefined
     /\ Len(ureq.password) \notin 5..32) => ~UCalled("login.checkCredentials")

\* C26: when the GitHub callback reads the list of addresses, the email it
\* stores is the primary verified address, else the first verified address,
\* and with no verified address it answers with an error and stores no
\* profile.
C26_ChosenEmailIsVerified ==
    (/\ route = "GET /github"
     /\ upc = "done"
     /\ ulocal # <<>>
     /\ ulocal[1].emails.kind = "list") =>
        LET list == ulocal[1].emails.list
            primaryVerified == SelectSeq(list, LAMBDA a : a.primary /\ a.verified)
            verified == SelectSeq(list, LAMBDA a : a.verified)
        IN IF Len(verified) = 0
           THEN /\ uresp[1].status = 400
                /\ session.githubUserDetails = <<>>
           ELSE session.githubUserDetails =
                   <<[email |-> IF Len(primaryVerified) > 0
                                THEN primaryVerified[1].email
                                ELSE verified[1].email]>>

\* C27: the path searchUsers requests is '/users', then '/search:(' with one
\* field=value pair for each term whose value is not empty, the values
\* percent-encoded and the pairs separated by commas, then ')', then
\* '/with:(' with the percent-encoded relations separated by commas and ')'.
C27_SearchPairsCommaSeparated ==
    (route = "coreapi.searchUsers" /\ ucalls # <<>>) =>
        LET terms == ulocal[1].terms
            withTerms == ulocal[1].withTerms
            kept == SelectSeq(terms.pairs, LAMBDA t : t.value # "")
            pairs == [i \in 1..Len(kept) |->
                         kept[i].key \o "=" \o encodeURIComponent(kept[i].value)]
            names == [i \in 1..Len(withTerms.names) |->
                         encodeURIComponent(withTerms.names[i])]
        IN ucalls[1].payload.path =
              "/users"
              \o (IF terms.given THEN "/search:(" \o join(pairs, ",") \o ")" ELSE "")
              \o (IF withTerms.given THEN "/with:(" \o join(names, ",") \o ")" ELSE "")

\* C28: the cname of every Domain request is 8 characters, each a lowercase
\* letter or a digit, followed by '.cdn', and every record of the run's DNS
\* request has that cname as its domain.
C28_CnamePatternAndReuse ==
    \A r \in Runs : \A i \in 1..Len(pcalls[r]) :
        /\ pcalls[r][i].step = "Domain" =>
              LET cname == pcalls[r][i].payload.cname IN
              /\ Len(cname) = 12
              /\ \A k \in 1..8 :
                    cname[k] \in {"a", "b", "c", "d", "e", "f", "g", "h", "i", "j",
                                  "k", "l", "m", "n", "o", "p", "q", "r", "s", "t",
                                  "u", "v", "w", "x", "y", "z", "0", "1", "2", "3",
                                  "4", "5", "6", "7", "8", "9"}
              /\ SubSeq(cname, 9, 12) = <<".", "c", "d", "n">>
        /\ pcalls[r][i].step = "DNS" =>
              \A j \in 1..Len(pcalls[r][i].payload.records) :
                 \E d \in 1..Len(pcalls[r]) :
                    /\ pcalls[r][d].step = "Domain"
                    /\ pcalls[r][i].payload.records[j].domain
                          = pcalls[r][d].payload.cname

C28_Witness ==
    \E r \in Runs : \E i \in 1..Len(pcalls[r]) :
        /\ pcalls[r][i].step = "DNS"
        /\ Len(pcalls[r][i].payload.records) = 2
        /\ pcalls[r][2].payload.cname =
              <<"a", "z", "0", "9", "k", "3", "x", "q", ".", "c", "d", "n">>
        /\ pcalls[r][i].payload.records[1].domain = pcalls[r][2].payload.cname

\* C29: GET /location whose lookup failed (no database, an address the
\* database does not hold, or a country lookup of the CoreAPI that failed)
\* ends with one response that carries the default country.
C29_LookupFailureGivesDefault ==
    (/\ route = "GET /location"
     /\ upc \in {"done", "next(err)"}
     /\ \/ ulocal[1].geo \in {Undefined, JSNull}
        \/ /\ HasAnswer("getCountryID")
           /\ \/ ~Returned(AnswerOf("getCountryID"))
              \/ AnswerOf("getCountryID").shape # "full") =>
        /\ Len(uresp) = 1
        /\ uresp[1].result = DefaultCountry

\* C30: when destroying the session fails, GET /logout ends with exactly one
\* response, which is {success: false, status: 400, 'Logout failed'}, and
\* the error does not leave the handler.
C30_DestroyFailureReported ==
    (route = "GET /logout" /\ ulocal # <<>> /\ ulocal[1].err # <<>>) =>
        /\ upc = "done"
        /\ uresp = <<[success |-> FALSE, status |-> 400, message |-> "Logout failed"]>>

C30_Witness ==
    /\ route = "GET /logout"
    /\ ulocal # <<>>
    /\ ulocal[1].err # <<>>
    /\ Len(uresp) = 1
    /\ uresp[1].success = FALSE

\* C31: a step of POST /login or POST /user that puts a logged-in userContext
\* into the session is the arrival of an answer of the CoreAPI that confirms
\* the identity: a credentials check answered 200, whose id the context
\* holds; or, for a request whose SSO identity was verified, a user search
\* that found the account whose id the context holds; or a creation answered
\* 201 with the id the context holds. The response of that step is 200 or
\* 201: no error response comes with a login.
C31_LoginOnlyAfterConfirmation ==
    [][(/\ route \in {"POST /login", "POST /user"}
        /\ session'.userContext # session.userContext
        /\ session'.userContext # NoUserContext) =>
          LET ctx == session'.userContext[1]
              answers == uanswers'
              last == answers[Len(answers)]
              verified ==
                  \/ /\ ureq.github = "1"
                     /\ session.githubUserDetails # <<>>
                     /\ session.githubUserDetails[1].email \notin {Undefined, JSNull, ""}
                  \/ /\ ureq.github # "1"
                     /\ ureq.google_token = "1"
                     /\ ticketPayload # <<>>
                     /\ SameIgnoringCase(ureq.email, ticketPayload[1])
          IN /\ Len(answers) = Len(uanswers) + 1
             /\ upc' = "done"
             /\ Len(uresp') = 1
             /\ uresp'[1].status \in {200, 201}
             /\ ctx.loggedIn
             /\ \/ /\ last.step \in {"checkCredentials", "login.checkCredentials"}
                   /\ last.status = 200
                   /\ ctx.userID = IF last.shape = "full" THEN Len(ucalls) ELSE 0
                \/ /\ route = "POST /user"
                   /\ verified
                   /\ last.step = "searchUsers"
                   /\ last.shape = "full"
                   /\ ctx.userID = Len(ucalls)
                \/ /\ route = "POST /user"
                   /\ \E i \in 1..Len(answers) :
                         /\ answers[i].step = "createUser"
                         /\ answers[i].status = 201
                         /\ answers[i].shape = "full"
                         /\ ucalls[i].step = "createUser"
                         /\ ctx.userID = i]_allvars

C31_Witness ==
    /\ route = "POST /login"
    /\ session0.userContext = NoUserContext
    /\ HasAnswer("login.checkCredentials")
    /\ AnswerOf("login.checkCredentials").status = 200
    /\ AnswerOf("login.checkCredentials").shape = "full"
    /\ LoggedIn
    /\ session.userContext[1].userID = 1

\* C32: once POST /user has started, the session holds a userContext only as
\* the login of this request (its response 200 'User login successful' or 201
\* 'User created sucessfully'); a request that ends with any other response,
\* or with an error handed to next, leaves the session with no userContext,
\* whoever was logged in when it arrived.
C32_UserClearsLoginFirst ==
    (route = "POST /user" /\ upc # "idle") =>
        (LoggedIn =>
            /\ upc = "done"
            /\ Len(uresp) = 1
            /\ uresp[1].status \in {200, 201}
            /\ uresp[1].message \in {"User login successful", "User created sucessfully"}
            /\ session.userContext # session0.userContext)

C32_Witness ==
    /\ route = "POST /user"
    /\ session0.userContext = LoginContext(7, "u@x.io")
    /\ upc = "done"
    /\ uresp[1].status = 400
    /\ uresp[1].message = "Invalid password"
    /\ session.userContext = NoUserContext

\* C33: POST /login in a session that holds a userContext is answered 400
\* 'You must logout to access this resource' with no call to the CoreAPI and
\* the session as it was; and the userContext of a session changes only in
\* POST /user, in POST /login of a session that held none, or in GET /logout.
C33_LoginRefusedWhenLoggedIn ==
    /\ (/\ route = "POST /login"
        /\ session0.userContext # NoUserContext
        /\ upc # "POST /login") =>
           /\ upc = "done"
           /\ ucalls = <<>>
           /\ uanswers = <<>>
           /\ uresp = <<Response(400, FALSE, "You must logout to access this resource",
                                 [user_id |-> <<>>, email |-> <<>>])>>
           /\ session = session0
    /\ session.userContext # session0.userContext =>
           \/ route = "POST /user"
           \/ route = "GET /logout"
           \/ route = "POST /login" /\ session0.userContext = NoUserContext

C33_Witness ==
    /\ route = "POST /login"
    /\ session0.userContext = LoginContext(7, "u@x.io")
    /\ ureq.email = "a@x.io"
    /\ ureq.password = "abcde"
    /\ upc = "done"
    /\ uresp[1].status = 400
    /\ session.userContext = LoginContext(7, "u@x.io")

\* C36: a run requests the Origin only after its Domain request was answered
\* with a created Domain, so the Origin carries the id of that Domain; after a
\* Domain answer that created nothing the run requests no Origin.
C36_OriginOnlyAfterCreatedDomain ==
    \A r \in Runs : \A i \in 1..Len(pcalls[r]) :
        pcalls[r][i].step = "Origin" =>
            /\ plocal[r].domainResult.step = "Domain"
            /\ plocal[r].domainResult.shape = "full"
            /\ pcalls[r][i].payload.origin_conf_id # <<>>

\* C37: createUser sends the confirmation PATCH exactly when the account it
\* posted carries confirmed = 1 and the creation was answered 201 with a
\* truthy success and an id, and sends it after that answer, for that id; and
\* when the confirmation is answered with anything but 202 and a truthy
\* success, POST /user answers 500 and logs nobody in, though the creation
\* had answered 201.
C37_ConfirmationAfterCreation ==
    /\ \A i \in 1..Len(ucalls) :
          ucalls[i].step = "confirmUser" =>
              /\ i > 1
              /\ ucalls[i - 1].step = "createUser"
              /\ ucalls[i - 1].payload.confirmed = 1
              /\ uanswers[i - 1].status = 201
              /\ uanswers[i - 1].success
              /\ uanswers[i - 1].shape = "full"
              /\ ucalls[i].payload = [id |-> <<i - 1>>, confirmed |-> 1]
    /\ \A i \in 1..Len(uanswers) :
          (/\ uanswers[i].step = "createUser"
           /\ ucalls[i].payload.confirmed = 1
           /\ uanswers[i].status = 201
           /\ uanswers[i].success
           /\ uanswers[i].shape = "full") =>
              /\ Len(ucalls) = i + 1
              /\ ucalls[i + 1].step = "confirmUser"
    /\ \A i \in 1..Len(uanswers) :
          (/\ uanswers[i].step = "confirmUser"
           /\ uanswers[i].status # 202 \/ ~uanswers[i].success) =>
              /\ upc = "done"
              /\ Len(uresp) = 1
              /\ uresp[1].status = 500
              /\ uresp[1].success = FALSE
              /\ session.userContext = NoUserContext
              /\ uanswers[i - 1].status = 201

C37_Witness ==
    /\ HasAnswer("createUser")
    /\ AnswerOf("createUser").status = 201
    /\ HasAnswer("confirmUser")
    /\ AnswerOf("confirmUser").status = 202
    /\ ~AnswerOf("confirmUser").success
    /\ upc = "done"
    /\ uresp[1].status = 500
    /\ uresp[1].message = "Unable to confirm user account"
    /\ session.userContext = NoUserContext

\* ============================================ claims: two runs, one session
\* C34: the userContext of the session stays as the registration left it
\* (isSSO and justRegistered set) through every step of the runs, and each of
\* the two runs of the session that gets past its DemoRun and LeadGen steps
\* requests the password-reset email, the second as well as the first.
C34_ResetSentByEveryRun ==
    \A r \in Runs :
        /\ preq[r].ctx = NewAccountContext(TRUE, 7, "u@x.io")
        /\ session = session0
        /\ Called(r, "Regions") => Called(r, "PasswordReset")
        /\ (/\ plocal[r].demoRunResults.step = "DemoRun"
            /\ Called(r, "LeadGen") => plocal[r].leadGenReferrer.step = "LeadGen")
              => Called(r, "PasswordReset")

C34_Witness ==
    /\ ppc["r1"] = "done"
    /\ perr["r1"] = <<>>
    /\ Called("r1", "PasswordReset")
    /\ Called("r2", "PasswordReset")
    /\ plocal["r1"].dnsAnswer.step = "DNS"
    /\ plocal["r2"].subscription.n > plocal["r1"].dnsAnswer.n

\* C35: with the steps of two runs interleaved in any order, the response of
\* a run that completed bundles the data of that run's own answers: its dns
\* is the answer to its own DNS request, not the other run's, and the Origin
\* it requested carries the id of the Domain its own Domain request created.
C35_RunsKeepTheirOwnResults ==
    \A r \in Runs :
        /\ (ppc[r] = "done" /\ perr[r] = <<>> /\ pcalls[r] # <<>>) =>
              LET bundle == presp[r][1].result[1] IN
              /\ bundle.dns = DataOf(plocal[r].dnsAnswer)
              /\ plocal[r].dnsAnswer.step = "DNS"
              /\ bundle.domain = DataOf(plocal[r].domainResult)
              /\ bundle.origin = DataOf(plocal[r].originResult)
              /\ bundle.demo = DataOf(plocal[r].demoRunResults)
              /\ bundle.subscription = plocal[r].subscription
              /\ \A q \in Runs \ {r} :
                    /\ bundle.dns # DataOf(plocal[q].dnsAnswer)
                    /\ bundle.domain # DataOf(plocal[q].domainResult)
                    /\ bundle.origin # DataOf(plocal[q].originResult)
                    /\ bundle.subscription # plocal[q].subscription
        /\ \A i \in 1..Len(pcalls[r]) :
              pcalls[r][i].step = "Origin" =>
                 /\ plocal[r].domainResult.step = "Domain"
                 /\ pcalls[r][i].payload.origin_conf_id = IdOf(plocal[r].domainResult)
                 /\ \A q \in Runs \ {r} :
                       pcalls[r][i].payload.origin_conf_id
                          # IdOf(plocal[q].domainResult)

C35_Witness ==
    /\ ppc["r1"] = "done" /\ perr["r1"] = <<>>
    /\ ppc["r2"] = "done" /\ perr["r2"] = <<>>
    /\ plocal["r1"].domainResult.n < plocal["r2"].domainResult.n
    /\ plocal["r2"].domainResult.n < plocal["r1"].originResult.n
    /\ plocal["r2"].dnsAnswer.n < plocal["r1"].dnsAnswer.n
    /\ plocal["r1"].dnsAnswer.n = plocal["r2"].dnsAnswer.n + 1
    /\ presp["r2"][1].result[1].dns = plocal["r2"].dnsAnswer
    /\ dnsResult = plocal["r1"].dnsAnswer

\* ================================================ claims: wrapped handlers
\* The handler of the request has returned or thrown.
RouteEnded == upc \in {"done", "next(err)"} \/ \E r \in Runs : ppc[r] = "done"

\* C38: a request to POST /login or POST /user ends either with one response
\* sent and no next(err), or with next(err) and no response sent; a request to
\* POST /imageengine ends with one response sent; no request has more than one
\* response; while a request has not ended one of its steps can be taken, and
\* once it has ended no step is left that could send or forward anything more.
C38_OneResponseOrOneNext ==
    /\ upc # "off" =>
          /\ Len(uresp) <= 1
          /\ upc = "done" <=> Len(uresp) = 1
          /\ upc = "next(err)" => uresp = <<>>
    /\ \A r \in Runs :
          ppc[r] # "off" =>
             /\ Len(presp[r]) <= 1
             /\ ppc[r] = "done" <=> Len(presp[r]) = 1
             /\ ppc[r] # "next(err)"
    /\ (upc # "off" \/ \E r \in Runs : ppc[r] # "off") =>
          (RouteEnded <=> ~ENABLED NextRoutes)

C38_Witness ==
    /\ route = "POST /user"
    /\ UCalled("searchUsers")
    /\ HasAnswer("searchUsers")
    /\ upc = "next(err)"
    /\ uresp = <<>>

C38_WitnessResponse ==
    /\ route = "POST /login"
    /\ HasAnswer("login.checkCredentials")
    /\ upc = "done"
    /\ Len(uresp) = 1

C38_WitnessPipeline ==
    /\ ppc["r1"] = "done"
    /\ pcalls["r1"] # <<>>
    /\ Len(presp["r1"]) = 1
    /\ presp["r1"][1].status = 500

====
